---- MODULE Spec2Model ----
(***************************************************************************)
(* QuickConverter: the conversion request pipeline (POST /api/convert),    *)
(* the format classifier, the converter adapters and the bounded analytics *)
(* store.                                                                  *)
(*                                                                         *)
(* Strings that the code takes apart are sequences of atoms: an atom is    *)
(* either the dot "." or a dot-free word, so that split('.'), pop(),       *)
(* toLowerCase() and endsWith() are computed, not assumed.  An extension   *)
(* is a segment (a sequence of atoms); the extension 'png' is <<"png">>.   *)
(* Buffers are sequences of bytes.                                         *)
(***************************************************************************)
EXTENDS Integers, Sequences, FiniteSets, TLC

VARIABLES
    pc,            \* position of the POST /api/convert handler
    req,           \* the parsed form data: file (or null) and targetFormat (or null)
    fileExtension, \* local of POST: getFileExtension(file.name)
    result,        \* local of POST: the converted body
    mimeType,      \* local of POST
    caught,        \* the error caught by POST's catch block (its message), or NoError
    calls,         \* adapters invoked by this request, with what the engine did
    posted,        \* analytics events this request tried to POST, with the fetch outcome
    responses,     \* responses returned for this request
    analyticsData, \* the in-memory analytics store
    nextId,        \* number of trackConversion calls so far (ids are unique per call)
    history,       \* every event ever tracked, in call order (ghost)
    now,           \* the wall clock, in hours since a midnight (UTC)
    handlers,      \* the POST /api/analytics requests in progress, one record each
    query,         \* the response of the GET /api/analytics handled by the last step
    pdf,           \* a convertImageToPdf call: the image, the options, the page drawn
    uploads,       \* the upload requests in progress, one record each
    objects,       \* the object store: the keys of the 'uploads' bucket
    rows,          \* the 'files' table, in insertion order
    held,          \* the array a caller of exportAnalyticsData / importAnalyticsData holds
    files,         \* ConversionModal: the files prop (empty while the modal is not open)
    conversionJobs, \* ConversionModal: the conversionJobs state
    isConverting,  \* ConversionModal: the isConverting state
    loop,          \* the running startConversion call: its position and its closure
    timers,        \* the pending 5-second removal timeouts
    clock,         \* Date.now(), in seconds
    sweptAt,       \* the second at which the cleanup interval last fired
    requests,      \* the files POSTed to /api/convert, in order
    settled,       \* per file, how its last request ended and when (ghost)
    closing        \* onClose has been scheduled

vars == <<pc, req, fileExtension, result, mimeType, caught, calls, posted,
          responses, analyticsData, nextId, history, now, handlers, query, pdf,
          uploads, objects, rows, held, files, conversionJobs, isConverting, loop,
          timers, clock, sweptAt, requests, settled, closing>>

convertVars == <<pc, req, fileExtension, result, mimeType, caught, calls, posted, responses>>
storeVars == <<analyticsData, nextId, history>>
apiVars == <<now, handlers, query>>
pdfVars == <<pdf>>
uploadVars == <<uploads, objects, rows>>
backupVars == <<held>>
modalVars == <<files, conversionJobs, isConverting, loop, timers, clock, sweptAt,
               requests, settled, closing>>
sideVars == <<pdfVars, uploadVars, backupVars, modalVars>>

----------------------------------------------------------------------------
(* Bounds *)

\* longest uploaded buffer
MaxBufLen == 6
\* number of trackConversion calls beyond the store's capacity
ExtraTracked == 3
\* number of leading trackConversion calls whose input is chosen freely
VariedCalls == 2
\* distance from the capacity of the partly filled store that runs may start from
NearFull == 2
\* number of concurrent POST /api/analytics requests
MaxHandlers == 2
\* number of events in the stores that GET /api/analytics reads
MaxSummarised == 2
\* upload requests handled at the same time
MaxUploaders == 2

\* analytics.ts keeps the last 1000 records
MaxRecords == 1000

----------------------------------------------------------------------------
(* Values *)

Dot == "."
Null == "null"
NoError == "no-error"
W(word) == <<word>>

RECURSIVE Take(_, _)
Take(s, n) == IF n = 0 \/ s = <<>> THEN <<>> ELSE <<Head(s)>> \o Take(Tail(s), n - 1)

\* An ICO image starts 00 00 01 00; the other pattern does not.  The text
\* pattern is a, newline, <, newline, the byte FF (never valid in UTF-8), ...
IcoPattern == <<0, 0, 1, 0, 1, 0, 1, 0, 1, 0, 1, 0>>
TextPattern == <<97, 10, 60, 10, 255, 10, 98, 10, 97, 10, 60, 10>>
Buffers ==
    {Take(IcoPattern, n) : n \in 0..MaxBufLen} \cup {Take(TextPattern, n) : n \in (MaxBufLen - 1)..MaxBufLen}

FileNames ==
    { <<"photo", Dot, "png">>, <<"photo", Dot, "SVG">>, <<"logo", Dot, "svg">>,
      <<"icon", Dot, "ico">>, <<"clip", Dot, "mp4">>, <<"report", Dot, "docx">>,
      <<"notes", Dot, "txt">>, <<"paper", Dot, "pdf">>, <<"old", Dot, "doc">>,
      <<"memo", Dot, "rtf">>,
      <<"app", Dot, "js">>, <<"app", Dot, "ts">>, <<"style", Dot, "css">>,
      <<"song", Dot, "mp3">>, <<"voice", Dot, "wav">>, <<"tune", Dot, "OGG">>,
      <<"take", Dot, "aac">>, <<"album", Dot, "flac">>, <<"mp3">>, <<"archive", Dot, "tar", Dot, "gz">>,
      <<"png">>, <<"mp4">>, <<"docx">>, <<"README">>, <<"photo", Dot>>,
      <<"photo", "png">>,
      <<"report", Dot, "DOCX">>, <<"notes", Dot, "Txt">>, <<"paper", Dot, "PDF">> }

TargetFormats ==
    { "png", "jpeg", "jpg", "webp", "avif", "ico", "svg", "pdf", "watermark-removed",
      "mp4", "avi", "mov", "webm", "mp3", "wav", "aac", "html", "txt", "js", "ts",
      "bmp", "tiff", "xyz" }

\* formData.get('file'): a File, or null when the field is absent
Files == [name : FileNames, buffer : Buffers, isNull : {FALSE}]
NullFile == [name |-> <<>>, buffer |-> <<>>, isNull |-> TRUE]

\* formData.get yields null for an absent field; '' is a present but empty target
Requests == [file : Files \cup {NullFile}, targetFormat : TargetFormats \cup {Null, ""}]

\* What the third-party engines do with this request's bytes.  A request
\* reaches one engine, so the outcomes in which two engines fail are left out.
AllEngineOutcomes ==
    [ sharp : {"ok", "fail"},          \* sharp(buffer)...toBuffer()
      sharpLenient : {"ok", "fail"},   \* sharp(buffer, {failOnError: false})
      ffmpeg : {"none", "load", "write", "exec", "read"},  \* the step that fails
      mammoth : {"ok", "fail"} ]
EngineOutcomes ==
    { e \in AllEngineOutcomes :
        /\ (e.sharp = "ok" => e.sharpLenient = "ok")
        /\ (e.sharp = "fail" => e.ffmpeg = "none" /\ e.mammoth = "ok")
        /\ (e.ffmpeg # "none" => e.mammoth = "ok") }

\* no POST /api/analytics request in progress, no GET answered by the last step
NoHandlers == <<>>
NoQuery == [action |-> "none"]

\* How the analytics fetch settles; until then it is pending.
FetchOutcomes == {"ok", "rejects", "errorStatus"}
Pending == "pending"

----------------------------------------------------------------------------
(* file-processing.ts: the classifier *)

LowerOf(a) ==
    CASE a = "SVG" -> "svg"
      [] a = "README" -> "readme"
      [] a = "DOCX" -> "docx"
      [] a = "Txt" -> "txt"
      [] a = "PDF" -> "pdf"
      [] a = "OGG" -> "ogg"
      [] OTHER -> a

toLowerCase(s) == [i \in DOMAIN s |-> LowerOf(s[i])]

\* filename.split('.')
RECURSIVE split(_)
split(s) ==
    IF \A i \in DOMAIN s : s[i] # Dot
    THEN <<s>>
    ELSE LET i == CHOOSE k \in DOMAIN s : s[k] = Dot /\ \A j \in 1..(k - 1) : s[j] # Dot
         IN <<SubSeq(s, 1, i - 1)>> \o split(SubSeq(s, i + 1, Len(s)))

\* Mutant: the extension keeps the case it has in the file name.
getFileExtension_CaseSensitive(filename) ==
    LET parts == split(filename)
    IN parts[Len(parts)]

getFileExtension(filename) ==
    LET parts == split(filename)
    IN toLowerCase(parts[Len(parts)])

endsWith(s, suffix) ==
    /\ Len(s) >= Len(suffix)
    /\ SubSeq(s, Len(s) - Len(suffix) + 1, Len(s)) = suffix

isValidImageFormat(format) ==
    format \in {W("jpeg"), W("jpg"), W("png"), W("webp"), W("avif"), W("gif"), W("svg"), W("ico"), W("tiff")}
isValidIconFormat(format) == format \in {W("ico"), W("svg")}
\* Mutant: the audio extensions count as video
isValidVideoFormat_WithAudio(format) ==
    format \in {W("mp4"), W("avi"), W("mov"), W("webm"), W("mkv"), W("flv"),
                W("mp3"), W("wav"), W("aac"), W("ogg"), W("flac")}

isValidVideoFormat(format) ==
    format \in {W("mp4"), W("avi"), W("mov"), W("webm"), W("mkv"), W("flv")}
isValidAudioFormat(format) ==
    format \in {W("mp3"), W("wav"), W("aac"), W("ogg"), W("flac")}
isValidDocumentFormat(format) ==
    format \in {W("pdf"), W("docx"), W("doc"), W("rtf"), W("txt")}
isValidCodeFormat(format) ==
    format \in {W("js"), W("ts"), W("jsx"), W("tsx"), W("html"), W("css"), W("json"), W("xml"), W("yaml"), W("yml")}

----------------------------------------------------------------------------
(* server-file-processing.ts: the converter adapters.  An adapter returns  *)
(* either a value or throws an Error with a message.                       *)

Body(tag, data) == [tag |-> tag, data |-> data]
NoBody == Body("empty", <<>>)
Returned(v) == [threw |-> FALSE, value |-> v, error |-> NoError]
Threw(msg) == [threw |-> TRUE, value |-> NoBody, error |-> msg]

\* sharp re-encodes to the requested format; with a target outside the four
\* cases no encoder is selected and toBuffer() keeps the input's own format.
convertImageFormat(inputBuffer, targetFormat, eng) ==
    IF eng.sharp = "fail"
    THEN Threw("Image conversion failed: sharp error")
    ELSE IF targetFormat \in {"jpeg", "png", "webp", "avif"}
         THEN Returned(Body(targetFormat, inputBuffer))
         ELSE Returned(Body("input-format", inputBuffer))

convertToIco(inputBuffer, eng) ==
    IF eng.sharp = "fail"
    THEN Threw("ICO conversion failed: sharp error")
    ELSE Returned(Body("png-16", inputBuffer))

convertSvgToIco(svgBuffer, eng) ==
    IF eng.sharp = "fail"
    THEN Threw("SVG to ICO conversion failed: sharp error")
    ELSE Returned(Body("png-16", svgBuffer))

convertSvgToPng(svgBuffer, eng) ==
    IF eng.sharp = "fail"
    THEN Threw("SVG to PNG conversion failed: sharp error")
    ELSE Returned(Body("png-512", svgBuffer))

convertSvgToJpeg(svgBuffer, eng) ==
    IF eng.sharp = "fail"
    THEN Threw("SVG to JPEG conversion failed: sharp error")
    ELSE Returned(Body("jpeg-512", svgBuffer))

convertSvgToWebp(svgBuffer, eng) ==
    IF eng.sharp = "fail"
    THEN Threw("SVG to WebP conversion failed: sharp error")
    ELSE Returned(Body("webp-512", svgBuffer))

convertImageToPdf(imageBuffer, eng) ==
    IF eng.sharp = "fail"
    THEN Threw("Image to PDF conversion failed: sharp error")
    ELSE Returned(Body("pdf-page", imageBuffer))

removeWatermark(imageBuffer, eng) ==
    IF eng.sharp = "fail"
    THEN Threw("Failed to remove watermark from image")
    ELSE Returned(Body("png-filtered", imageBuffer))

\* The fixed SVG that says (Conversion Failed)
PlaceholderSvg == Body("placeholder-svg:Conversion Failed", <<>>)

isValidIco(icoBuffer) ==
    LET icoHeader == SubSeq(icoBuffer, 1, 4)
    IN icoHeader[1] = 0 /\ icoHeader[2] = 0 /\ icoHeader[3] = 1 /\ icoHeader[4] = 0

TooSmall(icoBuffer) == Len(icoBuffer) < 6

\* Mutant: no placeholder as the last resort, the decode error is thrown.
convertIcoToSvg_NoPlaceholder(icoBuffer, eng) ==
    IF TooSmall(icoBuffer)
    THEN Threw("ICO to SVG conversion failed: Error: File too small to be a valid ICO file")
    ELSE IF eng.sharp = "ok"
         THEN Returned(Body("svg-embedded-png", icoBuffer))
         ELSE IF eng.sharpLenient = "ok"
              THEN Returned(Body("svg-embedded-png-256", icoBuffer))
              ELSE Threw("ICO to SVG conversion failed: sharp error")

\* The header check only logs a warning; decoding is tried either way, first
\* strictly, then with failOnError: false, and the placeholder is the last resort.
convertIcoToSvg(icoBuffer, eng) ==
    IF TooSmall(icoBuffer)
    THEN Threw("ICO to SVG conversion failed: Error: File too small to be a valid ICO file")
    ELSE IF eng.sharp = "ok"
         THEN Returned(Body("svg-embedded-png", icoBuffer))
         ELSE IF eng.sharpLenient = "ok"
              THEN Returned(Body("svg-embedded-png-256", icoBuffer))
              ELSE Returned(PlaceholderSvg)

\* ffmpeg.load(), exec() and readFile() are awaited inside the try block, so a
\* rejection there is caught.  writeFile() is not awaited: its rejection is not
\* caught here, but the input file is then absent from the engine's file system,
\* no output is produced and the awaited readFile() rejects.  Every failing step
\* ends in the catch block, which returns the input buffer.
FfmpegRun(inputBuffer, outputTag, eng) ==
    IF eng.ffmpeg = "load"
    THEN Threw("ffmpeg.load rejected")
    ELSE IF eng.ffmpeg = "exec"
         THEN Threw("ffmpeg.exec rejected")
         ELSE IF eng.ffmpeg \in {"write", "read"}
              THEN Threw("ffmpeg.readFile rejected")
              ELSE Returned(Body(outputTag, inputBuffer))

\* Mutant: the catch block rethrows instead of returning the input.
convertVideoFormat_Rethrows(inputBuffer, targetFormat, eng) ==
    LET run == FfmpegRun(inputBuffer, "ffmpeg-output", eng)
    IN IF run.threw THEN Threw("Video conversion failed: ffmpeg error") ELSE run

convertVideoFormat(inputBuffer, targetFormat, eng) ==
    LET run == FfmpegRun(inputBuffer, "ffmpeg-output", eng)
    IN IF run.threw THEN Returned(Body("bytes", inputBuffer)) ELSE run

extractAudioFromVideo(videoBuffer, audioFormat, eng) ==
    LET run == FfmpegRun(videoBuffer, "ffmpeg-audio", eng)
    IN IF run.threw THEN Returned(Body("bytes", videoBuffer)) ELSE run

convertDocxToHtml(docxBuffer, eng) ==
    IF eng.mammoth = "fail"
    THEN Threw("DOCX to HTML conversion failed: mammoth error")
    ELSE Returned(Body("docx-html", docxBuffer))

\* Mutant: the text adapter returns what the HTML adapter returns
convertDocxToText_AsHtml(docxBuffer, eng) == convertDocxToHtml(docxBuffer, eng)

convertDocxToText(docxBuffer, eng) ==
    IF eng.mammoth = "fail"
    THEN Threw("DOCX to text conversion failed: mammoth error")
    ELSE Returned(Body("docx-raw-text", docxBuffer))

\* The inner throws are re-wrapped by the function's own catch block.
convertCodeFormat(inputBuffer, sourceFormat, targetFormat) ==
    IF sourceFormat = W("js") /\ targetFormat = "html"
    THEN Returned(Body("js-html-template", inputBuffer))
    ELSE IF sourceFormat = W("ts") /\ targetFormat = "js"
         THEN Returned(Body("ts-stripped", inputBuffer))
         ELSE IF sourceFormat \in {W("js"), W("ts")}
              THEN Threw("Code conversion failed: Error: Unsupported conversion")
              ELSE Threw("Code conversion failed: Error: Unsupported source format")

----------------------------------------------------------------------------
(* POST /api/convert: the dispatch branches.  A branch ends in one of       *)
(*   "converted": result and mimeType are set,                             *)
(*   "return":    an early return with a JSON response,                    *)
(*   "throw":     an adapter threw into POST's catch block.                *)
(* called lists the adapters the branch invoked.                           *)

Mime(type, subtype) == <<type, subtype>>
Json == Mime("application", "json")

JsonResponse(status, error, args, details) ==
    [ status |-> status, contentType |-> Json, disposition |-> <<>>,
      body |-> Body("json", <<>>), error |-> error, errorArgs |-> args,
      details |-> details ]

\* an adapter invocation, and what its engine did with the bytes
Call(fn, arg, engine) == [fn |-> fn, arg |-> arg, engine |-> engine]

\* the invocations, with whether the adapter threw and the Error's message
Settled(called, r) ==
    [ i \in DOMAIN called |->
        [ fn |-> called[i].fn, arg |-> called[i].arg, engine |-> called[i].engine,
          threw |-> r.threw, error |-> r.error ] ]

Early(response, called) ==
    [kind |-> "return", response |-> response, result |-> NoBody,
     mimeType |-> Mime("application", "octet-stream"), error |-> NoError, called |-> called]

\* result = await adapter(...); mimeType = ...
Converted(r, mime, called) ==
    IF r.threw
    THEN [kind |-> "throw", response |-> Null, result |-> NoBody,
          mimeType |-> Mime("application", "octet-stream"), error |-> r.error,
          called |-> Settled(called, r)]
    ELSE [kind |-> "converted", response |-> Null, result |-> r.value,
          mimeType |-> mime, error |-> NoError, called |-> Settled(called, r)]

SvgBranch(buffer, targetFormat, eng) ==
    CASE targetFormat = "png" ->
            Converted(convertSvgToPng(buffer, eng), Mime("image", "png"), <<Call("convertSvgToPng", targetFormat, eng.sharp)>>)
      [] targetFormat \in {"jpeg", "jpg"} ->
            Converted(convertSvgToJpeg(buffer, eng), Mime("image", "jpeg"), <<Call("convertSvgToJpeg", targetFormat, eng.sharp)>>)
      [] targetFormat = "webp" ->
            Converted(convertSvgToWebp(buffer, eng), Mime("image", "webp"), <<Call("convertSvgToWebp", targetFormat, eng.sharp)>>)
      [] targetFormat = "ico" ->
            Converted(convertSvgToIco(buffer, eng), Mime("image", "x-icon"), <<Call("convertSvgToIco", targetFormat, eng.sharp)>>)
      [] OTHER ->
            Converted(convertImageFormat(buffer, targetFormat, eng), Mime("image", targetFormat),
                      <<Call("convertImageFormat", targetFormat, eng.sharp)>>)

\* whether sharp can decode the buffer, strictly or leniently
IcoDecode(buffer, eng) ==
    IF eng.sharp = "ok" THEN "decodable"
    ELSE IF eng.sharpLenient = "ok" THEN "decodable-lenient"
    ELSE "undecodable"

\* The ico -> svg case has a try/catch of its own, which answers 400.
IcoToSvgCase(buffer, eng) ==
    LET r == convertIcoToSvg(buffer, eng)
        called == <<Call("convertIcoToSvg", "svg", IcoDecode(buffer, eng))>>
    IN IF r.threw
       THEN Early(JsonResponse(400, "ICO to SVG conversion failed. Try converting to PNG or JPEG instead.",
                               <<>>, r.error), Settled(called, r))
       ELSE Converted(r, Mime("image", "svg+xml"), called)

IcoBranch(buffer, targetFormat, eng) ==
    CASE targetFormat = "png" ->
            Converted(convertImageFormat(buffer, "png", eng), Mime("image", "png"), <<Call("convertImageFormat", "png", eng.sharp)>>)
      [] targetFormat \in {"jpeg", "jpg"} ->
            Converted(convertImageFormat(buffer, "jpeg", eng), Mime("image", "jpeg"), <<Call("convertImageFormat", "jpeg", eng.sharp)>>)
      [] targetFormat = "webp" ->
            Converted(convertImageFormat(buffer, "webp", eng), Mime("image", "webp"), <<Call("convertImageFormat", "webp", eng.sharp)>>)
      [] targetFormat = "svg" -> IcoToSvgCase(buffer, eng)
      [] OTHER ->
            Early(JsonResponse(400, "ICO conversion to ${targetFormat} is not supported", <<W(targetFormat)>>, NoError), <<>>)

\* Mutant: no special case for watermark removal, the type comes from the template.
ImageBranch_NoWatermarkCase(buffer, targetFormat, eng) ==
    IF targetFormat = "ico"
    THEN Converted(convertToIco(buffer, eng), Mime("image", "x-icon"), <<Call("convertToIco", targetFormat, eng.sharp)>>)
    ELSE IF targetFormat = "pdf"
         THEN Converted(convertImageToPdf(buffer, eng), Mime("application", "pdf"), <<Call("convertImageToPdf", targetFormat, eng.sharp)>>)
         ELSE Converted(convertImageFormat(buffer, targetFormat, eng), Mime("image", targetFormat),
                        <<Call("convertImageFormat", targetFormat, eng.sharp)>>)

ImageBranch(buffer, targetFormat, eng) ==
    IF targetFormat = "watermark-removed"
    THEN Converted(removeWatermark(buffer, eng), Mime("image", "png"), <<Call("removeWatermark", targetFormat, eng.sharp)>>)
    ELSE IF targetFormat = "ico"
         THEN Converted(convertToIco(buffer, eng), Mime("image", "x-icon"), <<Call("convertToIco", targetFormat, eng.sharp)>>)
         ELSE IF targetFormat = "pdf"
              THEN Converted(convertImageToPdf(buffer, eng), Mime("application", "pdf"), <<Call("convertImageToPdf", targetFormat, eng.sharp)>>)
              ELSE Converted(convertImageFormat(buffer, targetFormat, eng), Mime("image", targetFormat),
                             <<Call("convertImageFormat", targetFormat, eng.sharp)>>)

VideoBranch(buffer, targetFormat, eng) ==
    IF targetFormat \in {"mp3", "wav", "aac"}
    THEN Converted(extractAudioFromVideo(buffer, targetFormat, eng), Mime("audio", targetFormat),
                   <<Call("extractAudioFromVideo", targetFormat, eng.ffmpeg)>>)
    ELSE Converted(convertVideoFormat(buffer, targetFormat, eng), Mime("video", targetFormat),
                   <<Call("convertVideoFormat", targetFormat, eng.ffmpeg)>>)

\* buffer.toString('utf-8'): the code points of the text; a byte that cannot
\* start a UTF-8 sequence decodes to U+FFFD.  (The buffers here hold ASCII
\* bytes and the byte FF only.)
Utf8Decode(bytes) == [i \in DOMAIN bytes |-> IF bytes[i] < 128 THEN bytes[i] ELSE 65533]

\* Buffer.from(text, 'utf-8')
RECURSIVE Utf8Encode(_)
Utf8Encode(text) ==
    IF text = <<>> THEN <<>>
    ELSE (IF Head(text) < 128 THEN <<Head(text)>> ELSE <<239, 191, 189>>) \o Utf8Encode(Tail(text))

Newline == 10

\* textContent.split('\n')
RECURSIVE splitLines(_)
splitLines(text) ==
    IF \A i \in DOMAIN text : text[i] # Newline
    THEN <<text>>
    ELSE LET i == CHOOSE k \in DOMAIN text : text[k] = Newline /\ \A j \in 1..(k - 1) : text[j] # Newline
         IN <<SubSeq(text, 1, i - 1)>> \o splitLines(SubSeq(text, i + 1, Len(text)))

\* .join('')
RECURSIVE join(_)
join(parts) == IF parts = <<>> THEN <<>> ELSE Head(parts) \o join(Tail(parts))

\* the bytes of '<p>', '</p>', '<html><body>', '</body></html>' and '&lt;'
OpenP == <<60, 112, 62>>
CloseP == <<60, 47, 112, 62>>
HtmlOpen == <<60, 104, 116, 109, 108, 62, 60, 98, 111, 100, 121, 62>>
HtmlClose == <<60, 47, 98, 111, 100, 121, 62, 60, 47, 104, 116, 109, 108, 62>>
EscapedLt == <<38, 108, 116, 59>>

\* Mutant: '<' is escaped inside the paragraphs.
htmlContent_Escaped(textContent) ==
    LET lines == splitLines(textContent)
        escaped(line) == join([i \in DOMAIN line |-> IF line[i] = 60 THEN EscapedLt ELSE <<line[i]>>])
    IN join([i \in DOMAIN lines |-> OpenP \o escaped(lines[i]) \o CloseP])

\* textContent.split('\n').map(line => `<p>${line}</p>`).join('')
htmlContent(textContent) ==
    LET lines == splitLines(textContent)
    IN join([i \in DOMAIN lines |-> OpenP \o lines[i] \o CloseP])

\* Buffer.from(`<html><body>${htmlContent}</body></html>`, 'utf-8')
TxtToHtml(buffer) ==
    Utf8Encode(HtmlOpen \o htmlContent(Utf8Decode(buffer)) \o HtmlClose)

\* Mutant: a pdf source is answered with the stub text whatever the target.
DocumentBranch_PdfAnyTarget(file, ext, targetFormat, eng) ==
    LET lower == toLowerCase(file.name)
    IN IF endsWith(lower, <<Dot, "docx">>)
       THEN IF targetFormat = "html"
            THEN Converted(convertDocxToHtml(file.buffer, eng), Mime("text", "html"), <<Call("convertDocxToHtml", targetFormat, eng.mammoth)>>)
            ELSE Converted(convertDocxToText(file.buffer, eng), Mime("text", "plain"), <<Call("convertDocxToText", targetFormat, eng.mammoth)>>)
       ELSE IF endsWith(lower, <<Dot, "txt">>)
            THEN IF targetFormat = "html"
                 THEN Converted(Returned(Body("bytes", TxtToHtml(file.buffer))), Mime("text", "html"), <<>>)
                 ELSE Converted(Returned(Body("bytes", file.buffer)), Mime("text", "plain"), <<>>)
            ELSE IF endsWith(lower, <<Dot, "pdf">>)
                 THEN IF targetFormat = "html"
                      THEN Converted(Returned(Body("pdf-html-stub", <<>>)), Mime("text", "html"), <<>>)
                      ELSE Converted(Returned(Body("pdf-text-stub", <<>>)), Mime("text", "plain"), <<>>)
                 ELSE Early(JsonResponse(400, "Document conversion not supported for ${fileExtension} files. Supported formats: .docx, .txt, .pdf",
                                         <<ext>>, NoError), <<>>)

\* The sub-dispatch looks at the lower-cased file name, not at fileExtension.
DocumentBranch(file, ext, targetFormat, eng) ==
    LET lower == toLowerCase(file.name)
    IN IF endsWith(lower, <<Dot, "docx">>)
       THEN IF targetFormat = "html"
            THEN Converted(convertDocxToHtml(file.buffer, eng), Mime("text", "html"), <<Call("convertDocxToHtml", targetFormat, eng.mammoth)>>)
            ELSE Converted(convertDocxToText(file.buffer, eng), Mime("text", "plain"), <<Call("convertDocxToText", targetFormat, eng.mammoth)>>)
       ELSE IF endsWith(lower, <<Dot, "txt">>)
            THEN IF targetFormat = "html"
                 THEN Converted(Returned(Body("bytes", TxtToHtml(file.buffer))), Mime("text", "html"), <<>>)
                 ELSE Converted(Returned(Body("bytes", file.buffer)), Mime("text", "plain"), <<>>)
            ELSE IF endsWith(lower, <<Dot, "pdf">>)
                 THEN IF targetFormat = "txt"
                      THEN Converted(Returned(Body("pdf-text-stub", <<>>)), Mime("text", "plain"), <<>>)
                      ELSE IF targetFormat = "html"
                           THEN Converted(Returned(Body("pdf-html-stub", <<>>)), Mime("text", "html"), <<>>)
                           ELSE Early(JsonResponse(400, "PDF conversion to this format is not supported", <<>>, NoError), <<>>)
                 ELSE Early(JsonResponse(400, "Document conversion not supported for ${fileExtension} files. Supported formats: .docx, .txt, .pdf",
                                         <<ext>>, NoError), <<>>)

CodeMime(targetFormat) ==
    CASE targetFormat = "html" -> Mime("text", "html")
      [] targetFormat = "js" -> Mime("application", "javascript")
      [] targetFormat = "ts" -> Mime("application", "typescript")
      [] OTHER -> Mime("text", "plain")

CodeBranch(buffer, ext, targetFormat) ==
    Converted(convertCodeFormat(buffer, ext, targetFormat), CodeMime(targetFormat),
              <<Call("convertCodeFormat", targetFormat, "none")>>)

\* Mutant: the generic image test comes first, so svg and ico sources (members
\* of the image set too) are taken by the image branch.
Dispatch_ImageFirst(file, ext, targetFormat, eng) ==
    IF isValidImageFormat(ext)
    THEN ImageBranch(file.buffer, targetFormat, eng)
    ELSE IF isValidVideoFormat(ext)
         THEN VideoBranch(file.buffer, targetFormat, eng)
         ELSE IF isValidDocumentFormat(ext)
              THEN DocumentBranch(file, ext, targetFormat, eng)
              ELSE IF isValidCodeFormat(ext)
                   THEN CodeBranch(file.buffer, ext, targetFormat)
                   ELSE Early(JsonResponse(400, "Unsupported file type", <<>>, NoError), <<>>)

\* if (isValidIconFormat) ... else if (isValidImageFormat) ... else 400
Dispatch(file, ext, targetFormat, eng) ==
    IF isValidIconFormat(ext)
    THEN IF ext = W("svg")
         THEN SvgBranch(file.buffer, targetFormat, eng)
         ELSE IcoBranch(file.buffer, targetFormat, eng)
    ELSE IF isValidImageFormat(ext)
         THEN ImageBranch(file.buffer, targetFormat, eng)
         ELSE IF isValidVideoFormat(ext)
              THEN VideoBranch(file.buffer, targetFormat, eng)
              ELSE IF isValidDocumentFormat(ext)
                   THEN DocumentBranch(file, ext, targetFormat, eng)
                   ELSE IF isValidCodeFormat(ext)
                        THEN CodeBranch(file.buffer, ext, targetFormat)
                        ELSE Early(JsonResponse(400, "Unsupported file type", <<>>, NoError), <<>>)

\* if (!file) ... if (!targetFormat) ... then classification and dispatch
Handle(r, eng) ==
    IF r.file.isNull
    THEN Early(JsonResponse(400, "No file provided", <<>>, NoError), <<>>)
    ELSE IF r.targetFormat \in {Null, ""}
         THEN Early(JsonResponse(400, "No target format specified", <<>>, NoError), <<>>)
         ELSE Dispatch(r.file, getFileExtension(r.file.name), r.targetFormat, eng)

----------------------------------------------------------------------------
(* State outside the convert handler and the analytics store, as it is     *)
(* before anything ran.                                                    *)

\* no convertImageToPdf call in progress
NoPdf == [stage |-> "none"]

\* no upload request has arrived
NoUploads == [h \in 1..MaxUploaders |-> [pc |-> "idle"]]

\* no caller holds an array of events
NoHeld == [op |-> "none", items |-> <<>>, shared |-> FALSE, calls |-> 0, mutations |-> 0, ops |-> 0]

\* files given to the modal at once
MaxFiles == 3

\* no startConversion call is running and none has run
NoLoop == [pc |-> "idle", jobs |-> <<>>, i |-> 0, starts |-> 0, startedEmpty |-> FALSE, posts |-> 0]

\* no request has settled
NoneSettled == [f \in 1..MaxFiles |-> [status |-> "none", at |-> 0]]

InitSide ==
    /\ pdf = NoPdf
    /\ uploads = NoUploads
    /\ objects = {}
    /\ rows = <<>>
    /\ held = NoHeld
    /\ files = <<>>
    /\ conversionJobs = <<>>
    /\ isConverting = FALSE
    /\ loop = NoLoop
    /\ timers = {}
    /\ clock = 0
    /\ sweptAt = 0
    /\ requests = <<>>
    /\ settled = NoneSettled
    /\ closing = FALSE

----------------------------------------------------------------------------
(* POST /api/convert: the handler, one action per await point.             *)

Init ==
    /\ pc = "idle"
    /\ req = [file |-> NullFile, targetFormat |-> Null]
    /\ fileExtension = <<>>
    /\ result = NoBody
    /\ mimeType = Mime("application", "octet-stream")
    /\ caught = NoError
    /\ calls = <<>>
    /\ posted = <<>>
    /\ responses = <<>>
    /\ analyticsData = <<>>
    /\ nextId = 0
    /\ history = <<>>
    /\ now = 0
    /\ handlers = NoHandlers
    /\ query = NoQuery
    /\ InitSide

\* await request.formData() resolves
Receive(r) ==
    /\ pc = "idle"
    /\ req' = r
    /\ pc' = "parsed"
    /\ UNCHANGED <<fileExtension, result, mimeType, caught, calls, posted, responses>>
    /\ UNCHANGED storeVars
    /\ UNCHANGED apiVars
    /\ UNCHANGED sideVars

\* await request.formData() rejects: file and targetFormat stay null
ReceiveMalformed ==
    /\ pc = "idle"
    /\ caught' = "Failed to parse body as FormData"
    /\ pc' = "trackFailure"
    /\ UNCHANGED <<req, fileExtension, result, mimeType, calls, posted, responses>>
    /\ UNCHANGED storeVars
    /\ UNCHANGED apiVars
    /\ UNCHANGED sideVars

\* validation, classification, dispatch and the adapter call
Convert(eng) ==
    /\ pc = "parsed"
    /\ \E d \in {Handle(req, eng)} :
          /\ fileExtension' = IF req.file.isNull \/ req.targetFormat \in {Null, ""}
                              THEN fileExtension
                              ELSE getFileExtension(req.file.name)
          /\ calls' = calls \o d.called
          /\ result' = d.result
          /\ mimeType' = d.mimeType
          /\ caught' = d.error
          /\ responses' = IF d.kind = "return" THEN Append(responses, d.response) ELSE responses
          /\ pc' = CASE d.kind = "return" -> "done"
                     [] d.kind = "converted" -> "trackSuccess"
                     [] d.kind = "throw" -> "trackFailure"
    /\ UNCHANGED <<req, posted>>
    /\ UNCHANGED storeVars
    /\ UNCHANGED apiVars
    /\ UNCHANGED sideVars

\* Mutant: the fetch of the success path is not guarded, so a rejection
\* reaches the outer catch block.
SuccessFetchUncaught(outcome) == IF outcome = "rejects" THEN "catch" ELSE "respond"

\* The fetch of the success path sits in its own try/catch: a rejection is
\* logged and the handler goes on to build the response.
SuccessFetchSettled(outcome) == "respond"

SuccessEvent ==
    [ fileName |-> req.file.name, originalFormat |-> fileExtension,
      targetFormat |-> req.targetFormat, fileSize |-> Len(req.file.buffer),
      success |-> TRUE, errorMessage |-> NoError ]

SuccessResponse ==
    [ status |-> 200, contentType |-> mimeType,
      disposition |-> <<split(req.file.name)[1], req.targetFormat>>,
      body |-> result, error |-> NoError, errorArgs |-> <<>>, details |-> NoError ]

\* fetch(.../api/analytics) is called and the handler awaits it
TrackSuccess ==
    /\ pc = "trackSuccess"
    /\ posted' = Append(posted, [event |-> SuccessEvent, outcome |-> Pending])
    /\ pc' = "awaitSuccessFetch"
    /\ UNCHANGED <<req, fileExtension, result, mimeType, caught, calls, responses>>
    /\ UNCHANGED storeVars
    /\ UNCHANGED apiVars
    /\ UNCHANGED sideVars

\* the awaited fetch settles; the response is built and returned after it
AwaitSuccessFetch(outcome) ==
    /\ pc = "awaitSuccessFetch"
    /\ posted' = [posted EXCEPT ![Len(posted)].outcome = outcome]
    /\ IF SuccessFetchSettled(outcome) = "respond"
       THEN /\ responses' = Append(responses, SuccessResponse)
            /\ pc' = "done"
            /\ UNCHANGED caught
       ELSE /\ caught' = "fetch failed"
            /\ pc' = "trackFailure"
            /\ UNCHANGED responses
    /\ UNCHANGED <<req, fileExtension, result, mimeType, calls>>
    /\ UNCHANGED storeVars
    /\ UNCHANGED apiVars
    /\ UNCHANGED sideVars

\* The fetch of the catch block sits in a try/catch too.
FailureFetchSettled(outcome) == "respond"

FailureEvent ==
    [ fileName |-> IF req.file.isNull THEN <<"unknown">> ELSE req.file.name,
      originalFormat |-> IF req.file.isNull THEN <<"unknown">> ELSE getFileExtension(req.file.name),
      targetFormat |-> IF req.targetFormat \in {Null, ""} THEN "unknown" ELSE req.targetFormat,
      fileSize |-> IF req.file.isNull THEN 0 ELSE Len(req.file.buffer),
      success |-> FALSE, errorMessage |-> caught ]

\* Mutant: the catch block answers with the caller-error status.
FailureResponse_Status400 == JsonResponse(400, "Conversion failed", <<>>, caught)

\* Mutant: the catch block reports 'Unknown error' instead of the message.
FailureResponse_UnknownError == JsonResponse(500, "Conversion failed", <<>>, "Unknown error")

FailureResponse == JsonResponse(500, "Conversion failed", <<>>, caught)

\* the catch block calls fetch(.../api/analytics) and awaits it
TrackFailure ==
    /\ pc = "trackFailure"
    /\ posted' = Append(posted, [event |-> FailureEvent, outcome |-> Pending])
    /\ pc' = "awaitFailureFetch"
    /\ UNCHANGED <<req, fileExtension, result, mimeType, caught, calls, responses>>
    /\ UNCHANGED storeVars
    /\ UNCHANGED apiVars
    /\ UNCHANGED sideVars

\* the awaited fetch settles; the 500 is returned after it
AwaitFailureFetch(outcome) ==
    /\ pc = "awaitFailureFetch"
    /\ posted' = [posted EXCEPT ![Len(posted)].outcome = outcome]
    /\ IF FailureFetchSettled(outcome) = "respond"
       THEN /\ responses' = Append(responses, FailureResponse)
            /\ pc' = "done"
       ELSE /\ pc' = "crashed"
            /\ UNCHANGED responses
    /\ UNCHANGED <<req, fileExtension, result, mimeType, caught, calls>>
    /\ UNCHANGED storeVars
    /\ UNCHANGED apiVars
    /\ UNCHANGED sideVars

Next ==
    \/ \E r \in Requests : Receive(r)
    \/ ReceiveMalformed
    \/ \E eng \in EngineOutcomes : Convert(eng)
    \/ TrackSuccess
    \/ \E o \in FetchOutcomes : AwaitSuccessFetch(o)
    \/ TrackFailure
    \/ \E o \in FetchOutcomes : AwaitFailureFetch(o)

Spec == Init /\ [][Next]_vars

----------------------------------------------------------------------------
(* analytics.ts: the bounded in-memory store *)

\* Array.prototype.slice(-k): the last k elements (all of them when k >= length)
SliceLast(arr, k) ==
    IF k >= Len(arr) THEN arr ELSE SubSeq(arr, Len(arr) - k + 1, Len(arr))

\* Mutant: slice(0, 1000) keeps the oldest records.
trackConversion_KeepsOldest(store, conversionData) ==
    LET pushed == Append(store, conversionData)
    IN IF Len(pushed) > MaxRecords THEN SubSeq(pushed, 1, MaxRecords) ELSE pushed

\* Mutant: the new record takes the place of the last one (a lost update).
trackConversion_LostUpdate(store, conversionData) ==
    IF store = <<>> THEN <<conversionData>> ELSE [store EXCEPT ![Len(store)] = conversionData]

\* push, then trim to the last 1000 records
trackConversion(store, conversionData) ==
    LET pushed == Append(store, conversionData)
    IN IF Len(pushed) > MaxRecords THEN SliceLast(pushed, MaxRecords) ELSE pushed

\* What callers hand to trackConversion.  The first VariedCalls calls carry
\* either input; later calls carry the one their index selects.
OkInput ==
    [ fileName |-> <<"photo", Dot, "png">>, originalFormat |-> W("png"), targetFormat |-> "jpeg",
      fileSize |-> 6, processingTime |-> 12, success |-> TRUE, errorMessage |-> NoError ]
FailedInput ==
    [ fileName |-> <<"app", Dot, "js">>, originalFormat |-> W("js"), targetFormat |-> "ts",
      fileSize |-> 5, processingTime |-> 3, success |-> FALSE,
      errorMessage |-> "Code conversion failed: Error: Unsupported conversion" ]
PatternInput(n) == IF n % 2 = 0 THEN OkInput ELSE FailedInput
TrackInputs(n) ==
    IF n < VariedCalls THEN {OkInput, FailedInput} ELSE {PatternInput(n)}

\* { ...analytics, id, timestamp }: the id is generated per call (the call's
\* index stands for it), the timestamp is the clock at the call
ConversionData(analytics, id, timestamp) ==
    [ errorMessage |-> analytics.errorMessage, fileName |-> analytics.fileName,
      fileSize |-> analytics.fileSize, id |-> id,
      originalFormat |-> analytics.originalFormat,
      processingTime |-> analytics.processingTime, success |-> analytics.success,
      targetFormat |-> analytics.targetFormat, timestamp |-> timestamp ]

TrackConversion(analytics) ==
    /\ nextId < MaxRecords + ExtraTracked
    /\ LET conversionData == ConversionData(analytics, nextId, now)
       IN /\ analyticsData' = trackConversion(analyticsData, conversionData)
          /\ history' = Append(history, conversionData)
    /\ nextId' = nextId + 1
    /\ query' = NoQuery
    /\ UNCHANGED <<now, handlers>>
    /\ UNCHANGED convertVars
    /\ UNCHANGED sideVars

NextStore == \E a \in TrackInputs(nextId) : TrackConversion(a)

\* The events of the first n calls when each carries the input of its index.
Tracked(n) == [i \in 1..n |-> ConversionData(PatternInput(i - 1), i - 1, 0)]

\* The store starts empty.  The store as the first MaxRecords - NearFull calls
\* leave it, a state the empty store reaches by those calls, is a second
\* starting point, so that the runs that cross the capacity are short.
InitStore ==
    /\ pc = "idle"
    /\ req = [file |-> NullFile, targetFormat |-> Null]
    /\ fileExtension = <<>>
    /\ result = NoBody
    /\ mimeType = Mime("application", "octet-stream")
    /\ caught = NoError
    /\ calls = <<>>
    /\ posted = <<>>
    /\ responses = <<>>
    /\ nextId \in {0, MaxRecords - NearFull}
    /\ analyticsData = Tracked(nextId)
    /\ history = Tracked(nextId)
    /\ now = 0
    /\ handlers = NoHandlers
    /\ query = NoQuery
    /\ InitSide

SpecStore == InitStore /\ [][NextStore]_vars

----------------------------------------------------------------------------
(* POST /api/analytics (README.md carries the route's code).  A handler has *)
(* one await, on request.json(); what follows it (validation,              *)
(* trackConversion, the response) is synchronous and runs as one step.     *)
(* Concurrent requests interleave at the await.                            *)

Handlers == 1..MaxHandlers

RequiredFields ==
    {"fileName", "originalFormat", "targetFormat", "fileSize", "processingTime", "success"}

\* JSON bodies: a record whose domain is the set of fields that are present
FullBody ==
    [ fileName |-> <<"photo", Dot, "png">>, originalFormat |-> W("png"), targetFormat |-> "jpeg",
      fileSize |-> 6, processingTime |-> 12, success |-> TRUE ]
ZeroBody ==
    [ fileName |-> <<"app", Dot, "js">>, originalFormat |-> W("js"), targetFormat |-> "ts",
      fileSize |-> 0, processingTime |-> 0, success |-> FALSE,
      errorMessage |-> "Code conversion failed: Error: Unsupported conversion" ]
Without(body, field) == [k \in DOMAIN body \ {field} |-> body[k]]
EmptyBody == [k \in {} |-> 0]

ObjectBodies ==
    {FullBody, ZeroBody}
        \cup {Without(FullBody, f) : f \in RequiredFields}
        \cup { [FullBody EXCEPT !.fileName = <<>>], [FullBody EXCEPT !.originalFormat = <<>>],
               [FullBody EXCEPT !.targetFormat = ""] }

\* what request.json() gives: an object, the JSON value null, or a rejection
PostRequests ==
    {[json |-> "object", body |-> b] : b \in ObjectBodies}
        \cup {[json |-> "null", body |-> EmptyBody], [json |-> "malformed", body |-> EmptyBody]}

\* The first request to arrive carries any of the bodies, the requests that
\* run concurrently with it one of three.
RequestsOf(h) ==
    IF h = 1 THEN PostRequests
    ELSE {[json |-> "object", body |-> b] : b \in {FullBody, ZeroBody, Without(FullBody, "fileSize")}}

Has(body, field) == field \in DOMAIN body

\* Mutant: the numeric fields are tested for truthiness too.
MissingRequired_Falsy(body) ==
    \/ ~Has(body, "fileName") \/ body.fileName = <<>>
    \/ ~Has(body, "originalFormat") \/ body.originalFormat = <<>>
    \/ ~Has(body, "targetFormat") \/ body.targetFormat = ""
    \/ ~Has(body, "fileSize") \/ body.fileSize = 0
    \/ ~Has(body, "processingTime") \/ body.processingTime = 0
    \/ ~Has(body, "success") \/ ~body.success

\* !fileName || !originalFormat || !targetFormat || fileSize === undefined ||
\* processingTime === undefined || success === undefined
MissingRequired(body) ==
    \/ ~Has(body, "fileName") \/ body.fileName = <<>>
    \/ ~Has(body, "originalFormat") \/ body.originalFormat = <<>>
    \/ ~Has(body, "targetFormat") \/ body.targetFormat = ""
    \/ ~Has(body, "fileSize")
    \/ ~Has(body, "processingTime")
    \/ ~Has(body, "success")

\* the argument of trackConversion; errorMessage may be undefined
AnalyticsOf(body) ==
    [ fileName |-> body.fileName, originalFormat |-> body.originalFormat,
      targetFormat |-> body.targetFormat, fileSize |-> body.fileSize,
      processingTime |-> body.processingTime, success |-> body.success,
      errorMessage |-> IF Has(body, "errorMessage") THEN body.errorMessage ELSE NoError ]

Tracked200(analyticsId) ==
    [ status |-> 200, success |-> TRUE, analyticsId |-> analyticsId,
      message |-> "Conversion tracked successfully" ]
Missing400 == [status |-> 400, error |-> "Missing required fields"]
Tracking500 == [status |-> 500, error |-> "Failed to track conversion"]

\* the request arrives and the handler awaits request.json(); the requests
\* are numbered in the order of their arrival
PostReceive(h, r) ==
    /\ handlers[h].pc = "idle"
    /\ \A g \in 1..(h - 1) : handlers[g].pc # "idle"
    /\ handlers' = [handlers EXCEPT ![h] = [pc |-> "awaitJson", request |-> r]]
    /\ UNCHANGED <<now, query>>
    /\ UNCHANGED storeVars
    /\ UNCHANGED convertVars
    /\ UNCHANGED sideVars

\* request.json() settles and the rest of the handler runs.  A rejection, and
\* the TypeError of destructuring null, end in the catch block.
PostHandle(h) ==
    /\ handlers[h].pc = "awaitJson"
    /\ nextId < MaxRecords + ExtraTracked
    /\ LET r == handlers[h].request
           done(response) == [handlers EXCEPT ![h] = [pc |-> "done", request |-> r, response |-> response]]
       IN IF r.json # "object"
          THEN /\ handlers' = done(Tracking500)
               /\ UNCHANGED storeVars
          ELSE IF MissingRequired(r.body)
               THEN /\ handlers' = done(Missing400)
                    /\ UNCHANGED storeVars
               ELSE LET conversionData == ConversionData(AnalyticsOf(r.body), nextId, now)
                    IN /\ analyticsData' = trackConversion(analyticsData, conversionData)
                       /\ history' = Append(history, conversionData)
                       /\ nextId' = nextId + 1
                       /\ handlers' = done(Tracked200(conversionData.id))
    /\ UNCHANGED <<now, query>>
    /\ UNCHANGED convertVars
    /\ UNCHANGED sideVars

NextPost ==
    \/ \E h \in Handlers : \E r \in RequestsOf(h) : PostReceive(h, r)
    \/ \E h \in Handlers : PostHandle(h)

\* the store is empty, or as many records short of its capacity as lets the
\* requests in progress cross it
InitPost ==
    /\ pc = "idle"
    /\ req = [file |-> NullFile, targetFormat |-> Null]
    /\ fileExtension = <<>>
    /\ result = NoBody
    /\ mimeType = Mime("application", "octet-stream")
    /\ caught = NoError
    /\ calls = <<>>
    /\ posted = <<>>
    /\ responses = <<>>
    /\ nextId \in {0, MaxRecords - (MaxHandlers - 1)}
    /\ analyticsData = Tracked(nextId)
    /\ history = Tracked(nextId)
    /\ now = 0
    /\ handlers = [h \in Handlers |-> [pc |-> "idle"]]
    /\ query = NoQuery
    /\ InitSide

SpecPost == InitPost /\ [][NextPost]_vars

----------------------------------------------------------------------------
(* analytics.ts: the read side, and GET /api/analytics.  Time is counted in *)
(* hours; a calendar date (UTC) is the number of whole days since hour 0.  *)
(* A rate or a mean is kept as the pair <<numerator, denominator>>.        *)

HoursPerDay == 24

\* the instants the clock is looked at: now, an hour later, a day later, a day
\* and an hour later, 30 days later, 31 days later
Instants == {0, 1, HoursPerDay, HoursPerDay + 1, 30 * HoursPerDay, 31 * HoursPerDay}

Ratio(n, d) == <<n, d>>

RECURSIVE SumSeq(_)
SumSeq(numbers) == IF numbers = <<>> THEN 0 ELSE Head(numbers) + SumSeq(Tail(numbers))

\* the elements in the order of their first occurrence (the keys of an object
\* filled by a reduce)
RECURSIVE Distinct(_)
Distinct(seq) ==
    IF seq = <<>> THEN <<>>
    ELSE LET front == Distinct(SubSeq(seq, 1, Len(seq) - 1))
             last == seq[Len(seq)]
         IN IF \E i \in DOMAIN front : front[i] = last THEN front ELSE Append(front, last)

\* Array.prototype.sort, which is stable: before[i][j] says that the
\* comparator puts element i ahead of element j; elements it does not order
\* keep their relative positions
StableSort(entries, before) ==
    LET n == Len(entries)
        position(i) ==
            1 + Cardinality({j \in 1..n : j # i /\ (before[j][i] \/ (~before[i][j] /\ j < i))})
    IN [k \in 1..n |-> entries[CHOOSE i \in 1..n : position(i) = k]]

\* `${item.originalFormat} -> ${item.targetFormat}`
FormatKey(item) == <<item.originalFormat, item.targetFormat>>

\* item.timestamp.toISOString().split('T')[0]
DateOf(item) == item.timestamp \div HoursPerDay

\* the window of a time range, in hours
WindowHours(timeRange) ==
    CASE timeRange = "day" -> HoursPerDay
      [] timeRange = "week" -> 7 * HoursPerDay
      [] timeRange = "month" -> 30 * HoursPerDay

\* Mutant: the 'day' window is as long as the 'week' window
FilterByRange_DayIsWeek(store, timeRange, at) ==
    IF timeRange \in {"day", "week", "month"}
    THEN SelectSeq(store, LAMBDA item :
            item.timestamp >= at - WindowHours(IF timeRange = "day" THEN "week" ELSE timeRange))
    ELSE store

\* switch (timeRange): filter by item.timestamp >= now - window; any other value keeps all
FilterByRange(store, timeRange, at) ==
    IF timeRange \in {"day", "week", "month"}
    THEN SelectSeq(store, LAMBDA item : item.timestamp >= at - WindowHours(timeRange))
    ELSE store

\* .sort((a, b) => b.count - a.count)
SortByCountDesc(entries) ==
    StableSort(entries, [i \in DOMAIN entries |-> [j \in DOMAIN entries |->
        entries[i].count > entries[j].count]])

\* .sort((a, b) => b.avgTime - a.avgTime)
SortByAvgTimeDesc(entries) ==
    StableSort(entries, [i \in DOMAIN entries |-> [j \in DOMAIN entries |->
        entries[i].avgTime[1] * entries[j].avgTime[2] > entries[j].avgTime[1] * entries[i].avgTime[2]]])

\* .sort((a, b) => a.date.localeCompare(b.date))
SortByDate(entries) ==
    StableSort(entries, [i \in DOMAIN entries |-> [j \in DOMAIN entries |->
        entries[i].date < entries[j].date]])

\* group by date, one entry per date, sorted by date, .slice(-30)
getDailyStats(data) ==
    LET dates == Distinct([i \in DOMAIN data |-> DateOf(data[i])])
        entry(date) ==
            LET conversions == Len(SelectSeq(data, LAMBDA item : DateOf(item) = date))
                successes == Len(SelectSeq(data, LAMBDA item : DateOf(item) = date /\ item.success))
            IN [date |-> date, conversions |-> conversions, successRate |-> Ratio(successes * 100, conversions)]
    IN SliceLast(SortByDate([i \in DOMAIN dates |-> entry(dates[i])]), 30)

\* Mutant: the rate is computed without the totalConversions > 0 test (0 / 0)
SuccessRateOf_Unguarded(successfulConversions, totalConversions) ==
    Ratio(successfulConversions * 100, totalConversions)

\* totalConversions > 0 ? (successfulConversions / totalConversions) * 100 : 0
SuccessRateOf(successfulConversions, totalConversions) ==
    IF totalConversions > 0
    THEN Ratio(successfulConversions * 100, totalConversions) ELSE Ratio(0, 1)

getAnalyticsSummary(store, timeRange, at) ==
    LET filteredData == FilterByRange(store, timeRange, at)
        totalConversions == Len(filteredData)
        successfulConversions == Len(SelectSeq(filteredData, LAMBDA item : item.success))
        keys == Distinct([i \in DOMAIN filteredData |-> FormatKey(filteredData[i])])
        times(key) ==
            LET items == SelectSeq(filteredData, LAMBDA item : FormatKey(item) = key)
            IN [i \in DOMAIN items |-> items[i].processingTime]
    IN [ totalConversions |-> totalConversions,
         successfulConversions |-> successfulConversions,
         failedConversions |-> totalConversions - successfulConversions,
         successRate |-> SuccessRateOf(successfulConversions, totalConversions),
         averageProcessingTime |->
             IF totalConversions > 0
             THEN Ratio(SumSeq([i \in DOMAIN filteredData |-> filteredData[i].processingTime]), totalConversions)
             ELSE Ratio(0, 1),
         totalStorageUsed |-> SumSeq([i \in DOMAIN filteredData |-> filteredData[i].fileSize]),
         mostConvertedFormats |->
             Take(SortByCountDesc([i \in DOMAIN keys |->
                    [format |-> keys[i],
                     count |-> Len(SelectSeq(filteredData, LAMBDA item : FormatKey(item) = keys[i]))]]), 10),
         processingTimeByFormat |->
             Take(SortByAvgTimeDesc([i \in DOMAIN keys |->
                    [format |-> keys[i],
                     avgTime |-> Ratio(SumSeq(times(keys[i])), Len(times(keys[i])))]]), 10),
         dailyStats |-> getDailyStats(filteredData) ]

\* if (format) filter by originalFormat === format || targetFormat === format
getFormatAnalytics(store, format) ==
    LET filteredData ==
            IF format \in {Null, ""} THEN store
            ELSE SelectSeq(store, LAMBDA item : item.originalFormat = W(format) \/ item.targetFormat = format)
        keys == Distinct([i \in DOMAIN filteredData |-> FormatKey(filteredData[i])])
        group(key) ==
            LET items == SelectSeq(filteredData, LAMBDA item : FormatKey(item) = key)
                successCount == Len(SelectSeq(items, LAMBDA item : item.success))
                storageUsed == SumSeq([i \in DOMAIN items |-> items[i].fileSize])
            IN [ format |-> key,
                 totalConversions |-> Len(items),
                 successCount |-> successCount,
                 failureCount |-> Len(items) - successCount,
                 successRate |-> Ratio(successCount * 100, Len(items)),
                 averageProcessingTime |-> Ratio(SumSeq([i \in DOMAIN items |-> items[i].processingTime]), Len(items)),
                 averageFileSize |-> Ratio(storageUsed, Len(items)),
                 totalStorageUsed |-> storageUsed ]
    IN [i \in DOMAIN keys |-> group(keys[i])]

\* Mutant: a rate at the threshold counts as below it
Below_OrEqual(ratio, number) == ratio[1] <= number * ratio[2]

\* a < b for a rate or mean a and a number b (and a > b)
Below(ratio, number) == ratio[1] < number * ratio[2]
Above(ratio, number) == ratio[1] > number * ratio[2]

\* Number.prototype.toFixed(1): the number rounded to one decimal, half up,
\* as its count of tenths (0 for "0.0", 818 for "81.8")
toFixed1(ratio) == (20 * ratio[1] + ratio[2]) \div (2 * ratio[2])

\* x / 1000 for a mean x
Thousandth(ratio) == Ratio(ratio[1], ratio[2] * 1000)

\* bottlenecks: per format, low success rate first, then slow
RECURSIVE Bottlenecks(_)
Bottlenecks(formatAnalytics) ==
    IF formatAnalytics = <<>> THEN <<>>
    ELSE LET format == Head(formatAnalytics)
         IN (IF Below(format.successRate, 90)
             THEN <<[kind |-> "low success rate", format |-> format.format, value |-> toFixed1(format.successRate)]>>
             ELSE <<>>)
            \o (IF Above(format.averageProcessingTime, 10000)
                THEN <<[kind |-> "slow", format |-> format.format, value |-> toFixed1(Thousandth(format.averageProcessingTime))]>>
                ELSE <<>>)
            \o Bottlenecks(Tail(formatAnalytics))

getPerformanceInsights(store, at) ==
    LET summary == getAnalyticsSummary(store, "all", at)
        formatAnalytics == getFormatAnalytics(store, Null)
    IN [ recommendations |->
             (IF Below(summary.successRate, 95)
              THEN <<[kind |-> "success rate", value |-> toFixed1(summary.successRate)]>> ELSE <<>>)
             \o (IF Above(summary.averageProcessingTime, 5000)
                 THEN <<[kind |-> "processing time", value |-> toFixed1(Thousandth(summary.averageProcessingTime))]>> ELSE <<>>),
         bottlenecks |-> Bottlenecks(formatAnalytics),
         optimizations |->
             IF summary.totalStorageUsed > 1024 * 1024 * 1024
             THEN <<[kind |-> "file cleanup"]>> ELSE <<>> ]

\* [...analyticsData]
exportAnalyticsData(store) == [i \in DOMAIN store |-> store[i]]

\* searchParams.get(...): a value, or null when the parameter is absent
GetActions == {"summary", "formats", "insights", "export", "Summary", "bogus", "", Null}
TimeRanges == {"day", "week", "month", "all", "year", Null}
FormatParams == {"png", "ts", Null}

\* Mutant: export is not among the actions
GetResponse_NoExport(action, timeRange, format, store, at) ==
    CASE action = "summary" ->
            [status |-> 200, payload |-> getAnalyticsSummary(store, IF timeRange \in {Null, ""} THEN "all" ELSE timeRange, at)]
      [] action = "formats" -> [status |-> 200, payload |-> getFormatAnalytics(store, format)]
      [] action = "insights" -> [status |-> 200, payload |-> getPerformanceInsights(store, at)]
      [] OTHER -> [status |-> 400, payload |-> [error |-> "Invalid action"]]

\* switch (action); timeRange is searchParams.get('timeRange') || 'all'
GetResponse(action, timeRange, format, store, at) ==
    CASE action = "summary" ->
            [status |-> 200, payload |-> getAnalyticsSummary(store, IF timeRange \in {Null, ""} THEN "all" ELSE timeRange, at)]
      [] action = "formats" -> [status |-> 200, payload |-> getFormatAnalytics(store, format)]
      [] action = "insights" -> [status |-> 200, payload |-> getPerformanceInsights(store, at)]
      [] action = "export" -> [status |-> 200, payload |-> exportAnalyticsData(store)]
      [] OTHER -> [status |-> 400, payload |-> [error |-> "Invalid action"]]

\* GET has no await: the handler runs as one step.  None of the functions it
\* calls assigns to analyticsData or to one of its elements.
Get(action, timeRange, format) ==
    /\ LET response == GetResponse(action, timeRange, format, analyticsData, now)
       IN query' = [ action |-> action, timeRange |-> timeRange, format |-> format,
                     status |-> response.status, payload |-> response.payload ]
    /\ UNCHANGED <<now, handlers>>
    /\ UNCHANGED storeVars
    /\ UNCHANGED convertVars
    /\ UNCHANGED sideVars

\* time passes
Tick(t) ==
    /\ t > now
    /\ now' = t
    /\ query' = NoQuery
    /\ UNCHANGED handlers
    /\ UNCHANGED storeVars
    /\ UNCHANGED convertVars
    /\ UNCHANGED sideVars

NextGet ==
    \/ \E t \in Instants : Tick(t)
    \/ nextId < MaxSummarised /\ \E a \in {OkInput, FailedInput} : TrackConversion(a)
    \/ \E t \in TimeRanges : Get("summary", t, Null)
    \/ \E f \in FormatParams : Get("formats", Null, f)
    \/ \E a \in GetActions \ {"summary", "formats"} : Get(a, Null, Null)

SpecGet == Init /\ [][NextGet]_vars

----------------------------------------------------------------------------
(* exportAnalyticsData and importAnalyticsData.  A caller holds one array: *)
(* the one it passed to importAnalyticsData or the one exportAnalyticsData *)
(* returned.  `shared` tells whether that array and the store are the same *)
(* array object, in which case a mutation of one is a mutation of the      *)
(* other.  `op` is where the array comes from, `calls` the number of       *)
(* trackConversion calls made before that import or export, `mutations`    *)
(* the number of times the caller changed the array since, `ops` the       *)
(* number of imports and exports so far.                                   *)

\* imports and exports in one run
MaxBackupOps == 1
\* mutations a caller makes to the array it holds
MaxMutations == 1

\* The arrays handed to importAnalyticsData: events of another session (their
\* ids are negative, the ids of this session count up from 0).
BackupSizes == {0, MaxRecords - 1, MaxRecords + 2}
Backup(n) == [i \in 1..n |-> ConversionData(PatternInput(i), 0 - i, 0)]

\* Mutant: the array itself instead of a copy
Spread_Alias(arr) == [items |-> arr, shared |-> TRUE]

\* [...arr]: a new array with the same elements
Spread(arr) == [items |-> SubSeq(arr, 1, Len(arr)), shared |-> FALSE]

\* Mutant: the import keeps the last 1000 events
importAnalyticsData_Trimmed(data) == Spread(SliceLast(data, MaxRecords))

\* analyticsData = [...data], whatever the length of data
importAnalyticsData(data) == Spread(data)

ExportAnalyticsData ==
    /\ held.ops < MaxBackupOps
    /\ LET returned == Spread(analyticsData)
       IN held' = [op |-> "export", items |-> returned.items, shared |-> returned.shared,
                   calls |-> nextId, mutations |-> 0, ops |-> held.ops + 1]
    /\ query' = NoQuery
    /\ UNCHANGED <<now, handlers>>
    /\ UNCHANGED storeVars
    /\ UNCHANGED convertVars
    /\ UNCHANGED <<pdfVars, uploadVars, modalVars>>

\* the caller builds an array of n events and passes it
ImportAnalyticsData(n) ==
    /\ held.ops < MaxBackupOps
    /\ LET data == Backup(n)
           assigned == importAnalyticsData(data)
       IN /\ analyticsData' = assigned.items
          /\ held' = [op |-> "import", items |-> data, shared |-> assigned.shared,
                      calls |-> nextId, mutations |-> 0, ops |-> held.ops + 1]
    /\ query' = NoQuery
    /\ UNCHANGED <<now, handlers, nextId, history>>
    /\ UNCHANGED convertVars
    /\ UNCHANGED <<pdfVars, uploadVars, modalVars>>

\* Array.prototype.push, pop and shift on the array the caller holds
Mutated(items, how) ==
    CASE how = "push" -> Append(items, ConversionData(OkInput, 0 - (Len(items) + 1), 0))
      [] how = "pop" -> SubSeq(items, 1, Len(items) - 1)
      [] how = "shift" -> Tail(items)

\* The caller changes its array; a shared array changes for the store too.
MutateHeld(how) ==
    /\ held.op # "none"
    /\ held.mutations < MaxMutations
    /\ how = "push" \/ held.items # <<>>
    /\ held' = [held EXCEPT !.items = Mutated(held.items, how), !.mutations = @ + 1]
    /\ analyticsData' = IF held.shared THEN Mutated(held.items, how) ELSE analyticsData
    /\ query' = NoQuery
    /\ UNCHANGED <<now, handlers, nextId, history>>
    /\ UNCHANGED convertVars
    /\ UNCHANGED <<pdfVars, uploadVars, modalVars>>

NextBackup ==
    \/ \E a \in TrackInputs(nextId) : TrackConversion(a)
    \/ \E n \in BackupSizes : ImportAnalyticsData(n)
    \/ ExportAnalyticsData
    \/ \E how \in {"push", "pop", "shift"} : MutateHeld(how)

\* The store as the first MaxRecords - NearFull calls leave it.
InitBackup ==
    /\ InitStore
    /\ nextId = MaxRecords - NearFull

SpecBackup == InitBackup /\ [][NextBackup]_vars

----------------------------------------------------------------------------
(* getPerformanceInsights over stores that sit at its thresholds.  The     *)
(* store starts as earlier trackConversion calls left it: empty, or with   *)
(* 9, 18 or 19 successful png -> jpeg conversions.                         *)

\* trackConversion calls made on top of the starting store
MaxInsightCalls == 2

\* a failed conversion of the pair of OkInput
PngFailedInput ==
    [OkInput EXCEPT !.success = FALSE, !.errorMessage = "Input buffer contains unsupported image format"]

\* a successful conversion that took the given time (ms)
TimedInput(ms) == [OkInput EXCEPT !.processingTime = ms]

\* a successful conversion of a file of the given size (bytes)
SizedInput(bytes) == [OkInput EXCEPT !.fileSize = bytes]

HalfGiB == 512 * 1024 * 1024

\* inputs at and just over each threshold: 5000 ms, 10000 ms, and two files
\* that add up to 1 GiB or to one byte more
InsightInputs ==
    { OkInput, PngFailedInput, FailedInput,
      TimedInput(5000), TimedInput(5001), TimedInput(10000), TimedInput(10001),
      SizedInput(HalfGiB), SizedInput(HalfGiB + 1) }

\* the store after n successful conversions of OkInput
Succeeded(n) == [i \in 1..n |-> ConversionData(OkInput, i - 1, 0)]

SeedSizes == {0, 9, 18, 19}

InitInsights ==
    /\ pc = "idle"
    /\ req = [file |-> NullFile, targetFormat |-> Null]
    /\ fileExtension = <<>>
    /\ result = NoBody
    /\ mimeType = Mime("application", "octet-stream")
    /\ caught = NoError
    /\ calls = <<>>
    /\ posted = <<>>
    /\ responses = <<>>
    /\ nextId \in SeedSizes
    /\ analyticsData = Succeeded(nextId)
    /\ history = Succeeded(nextId)
    /\ now = 0
    /\ handlers = NoHandlers
    /\ query = NoQuery
    /\ InitSide

\* the calls made since the starting store: the events after the longest
\* starting store the history begins with
CallsMade ==
    LET seeds == {n \in SeedSizes : n <= nextId /\ SubSeq(history, 1, n) = Succeeded(n)}
    IN nextId - (CHOOSE n \in seeds : \A m \in seeds : m <= n)

NextInsights ==
    \/ Tick(31 * HoursPerDay)
    \/ /\ CallsMade < MaxInsightCalls
       /\ \E a \in InsightInputs : TrackConversion(a)
    \/ Get("insights", Null, Null)

SpecInsights == InitInsights /\ [][NextInsights]_vars

----------------------------------------------------------------------------
(* JavaScript numbers: IEEE 754 binary64, round to nearest, ties to even.  *)
(* A number is a sign, a magnitude written in binary (most significant bit *)
(* first, no leading zero; <<>> is 0) and the exponent of its last bit:    *)
(* the value is (neg ? -1 : 1) * m * 2^e.  The numbers met here are far    *)
(* from the subnormal and the overflow range.                              *)

Precision == 53

RECURSIVE ToBits(_)
ToBits(n) == IF n = 0 THEN <<>> ELSE Append(ToBits(n \div 2), n % 2)

Zeros(k) == [i \in 1..k |-> 0]

Front(bits) == SubSeq(bits, 1, Len(bits) - 1)
Last(bits) == bits[Len(bits)]

\* without the leading zeros
Strip(bits) ==
    IF \A i \in DOMAIN bits : bits[i] = 0 THEN <<>>
    ELSE SubSeq(bits, CHOOSE i \in DOMAIN bits : bits[i] = 1 /\ \A j \in 1..(i - 1) : bits[j] = 0, Len(bits))

\* The arithmetic on magnitudes goes limb by limb, a limb being LimbBits bits.
LimbBits == 16
Base == 2 ^ LimbBits

RECURSIVE BitsValue(_)
BitsValue(bits) == IF bits = <<>> THEN 0 ELSE 2 * BitsValue(Front(bits)) + Last(bits)

ToLimbs(bits) ==
    LET padded == Zeros((LimbBits - (Len(bits) % LimbBits)) % LimbBits) \o bits
    IN [i \in 1..(Len(padded) \div LimbBits) |->
            BitsValue(SubSeq(padded, LimbBits * (i - 1) + 1, LimbBits * i))]

FromLimbs(limbs) ==
    [n \in 1..(LimbBits * Len(limbs)) |->
        (limbs[((n - 1) \div LimbBits) + 1] \div (2 ^ (LimbBits - 1 - ((n - 1) % LimbBits)))) % 2]

RECURSIVE AddLimbs(_, _, _)
AddLimbs(a, b, carry) ==
    IF a = <<>> /\ b = <<>> THEN (IF carry = 0 THEN <<>> ELSE <<carry>>)
    ELSE LET x == IF a = <<>> THEN 0 ELSE Last(a)
             y == IF b = <<>> THEN 0 ELSE Last(b)
             t == x + y + carry
         IN Append(AddLimbs(IF a = <<>> THEN a ELSE Front(a), IF b = <<>> THEN b ELSE Front(b), t \div Base),
                   t % Base)

RECURSIVE SubLimbs(_, _, _)
SubLimbs(a, b, borrow) ==
    IF a = <<>> THEN <<>>
    ELSE LET y == IF b = <<>> THEN 0 ELSE Last(b)
             t == Last(a) - y - borrow
         IN Append(SubLimbs(Front(a), IF b = <<>> THEN b ELSE Front(b), IF t < 0 THEN 1 ELSE 0),
                   IF t < 0 THEN t + Base ELSE t)

RECURSIVE MulLimbs(_, _, _)
MulLimbs(a, w, carry) ==
    IF a = <<>> THEN (IF carry = 0 THEN <<>> ELSE <<carry>>)
    ELSE LET t == Last(a) * w + carry
         IN Append(MulLimbs(Front(a), w, t \div Base), t % Base)

RECURSIVE DivLimbs(_, _, _)
DivLimbs(a, d, r) ==
    IF a = <<>> THEN [q |-> <<>>, r |-> r]
    ELSE LET t == r * Base + Head(a)
             rest == DivLimbs(Tail(a), d, t % d)
         IN [q |-> <<t \div d>> \o rest.q, r |-> rest.r]

\* a + b + carry
AddBits(a, b, carry) == Strip(FromLimbs(AddLimbs(ToLimbs(a), ToLimbs(b), carry)))

\* a - b, for a >= b
SubBits(a, b) == Strip(FromLimbs(SubLimbs(ToLimbs(a), ToLimbs(b), 0)))

\* a * w for a natural w below 2^15
MulBits(a, w) == Strip(FromLimbs(MulLimbs(ToLimbs(a), w, 0)))

\* the quotient and the remainder of a / d for a positive d below 2^15
DivBits(a, d) ==
    LET division == DivLimbs(ToLimbs(a), d, 0)
    IN [q |-> Strip(FromLimbs(division.q)), r |-> division.r]

\* a < b for magnitudes without leading zeros
LessBits(a, b) ==
    \/ Len(a) < Len(b)
    \/ /\ Len(a) = Len(b)
       /\ \E i \in DOMAIN a : a[i] < b[i] /\ \A j \in 1..(i - 1) : a[j] = b[j]

Number(neg, m, e) == [neg |-> neg, m |-> m, e |-> e]

\* an integer literal or an integer-valued property (a pixel count)
FromInt(n) == Number(n < 0, ToBits(IF n < 0 THEN -n ELSE n), 0)

\* the magnitude of x with its last bit at exponent e <= x.e
AtExponent(x, e) == IF x.m = <<>> THEN <<>> ELSE x.m \o Zeros(x.e - e)

\* x < y and x <= y, by value
Less(x, y) ==
    LET e == IF x.e < y.e THEN x.e ELSE y.e
        a == AtExponent(x, e)
        b == AtExponent(y, e)
    IN CASE x.neg /\ ~y.neg -> a # <<>> \/ b # <<>>
         [] ~x.neg /\ y.neg -> FALSE
         [] ~x.neg /\ ~y.neg -> LessBits(a, b)
         [] x.neg /\ y.neg -> LessBits(b, a)
Leq(x, y) == ~Less(y, x)

\* the nearest number of Precision bits to the value of magnitude m and
\* exponent e, or to a value just above it when inexact (ties to even)
Round(neg, m, e, inexact) ==
    IF Len(m) <= Precision THEN Number(neg, m, e)
    ELSE LET kept == SubSeq(m, 1, Precision)
             guard == m[Precision + 1]
             sticky == inexact \/ \E i \in (Precision + 2)..Len(m) : m[i] = 1
             up == guard = 1 /\ (sticky \/ kept[Precision] = 1)
             rounded == IF up THEN AddBits(kept, <<>>, 1) ELSE kept
             shift == Len(m) - Precision
         IN IF Len(rounded) > Precision
            THEN Number(neg, Front(rounded), e + shift + 1)
            ELSE Number(neg, rounded, e + shift)

Negate(x) == Number(~x.neg, x.m, x.e)

\* the real number x + y, and x + y as the addition of two numbers gives it
Sum(x, y) ==
    LET e == IF x.e < y.e THEN x.e ELSE y.e
        a == AtExponent(x, e)
        b == AtExponent(y, e)
    IN IF x.neg = y.neg THEN Number(x.neg, AddBits(a, b, 0), e)
       ELSE IF LessBits(a, b) THEN Number(y.neg, SubBits(b, a), e)
       ELSE Number(x.neg, SubBits(a, b), e)
Plus(x, y) == LET sum == Sum(x, y) IN Round(sum.neg, sum.m, sum.e, FALSE)

\* x - y
Minus(x, y) == Plus(x, Negate(y))

\* the real number x * w for a natural w, and x * w as the multiplication gives it
Product(x, w) == Number(x.neg, MulBits(x.m, w), x.e)
TimesInt(x, w) == LET product == Product(x, w) IN Round(product.neg, product.m, product.e, FALSE)

\* x / d for a positive natural d: the quotient is developed to more than
\* Precision + 2 bits before it is rounded
DividedByInt(x, d) ==
    LET extra == Precision + 2 + Len(ToBits(d))
        division == DivBits(x.m \o Zeros(extra), d)
    IN Round(x.neg, division.q, x.e - extra, division.r # 0)

\* x / 2
Halved(x) == IF x.m = <<>> THEN x ELSE Number(x.neg, x.m, x.e - 1)

\* a decimal literal n / d (595.28 is 59528 / 100)
Literal(n, d) == DividedByInt(FromInt(n), d)

\* Math.min
MathMin(x, y) == IF Less(y, x) THEN y ELSE x

----------------------------------------------------------------------------
(* convertImageToPdf: the page and where the image is drawn on it.         *)

\* const { pageSize = 'A4', orientation = 'portrait', margin = 50 } = options
DefaultMargin == 50

\* metadata.width and metadata.height in pixels; 0 stands for a dimension
\* sharp could not determine
ImageWidths == {0, 1, 554, 598, 1000, 2000}
ImageHeights == {1, 554, 1000, 2000}

\* options.pageSize and options.orientation; Null is an option left out
PageSizes == {"A4", "Letter", "Legal", Null}
Orientations == {"portrait", "landscape", Null}

\* switch (pageSize): <<pageWidth, pageHeight>> in points
PageDimensions(pageSize) ==
    CASE pageSize = "Letter" -> <<FromInt(612), FromInt(792)>>
      [] pageSize = "Legal" -> <<FromInt(612), FromInt(1008)>>
      [] OTHER -> <<Literal(59528, 100), Literal(84189, 100)>>

\* the numbers convertImageToPdf computes for an image and its options
Layout(metadata, options) ==
    LET pageSize == IF options.pageSize = Null THEN "A4" ELSE options.pageSize
        orientation == IF options.orientation = Null THEN "portrait" ELSE options.orientation
        margin == DefaultMargin
        dimensions == PageDimensions(pageSize)
        pageWidth == IF orientation = "landscape" THEN dimensions[2] ELSE dimensions[1]
        pageHeight == IF orientation = "landscape" THEN dimensions[1] ELSE dimensions[2]
        availableWidth == Minus(pageWidth, FromInt(margin * 2))
        availableHeight == Minus(pageHeight, FromInt(margin * 2))
        scaleX == DividedByInt(availableWidth, metadata.width)
        scaleY == DividedByInt(availableHeight, metadata.height)
        scale == MathMin(MathMin(scaleX, scaleY), FromInt(1))
        scaledWidth == TimesInt(scale, metadata.width)
        scaledHeight == TimesInt(scale, metadata.height)
    IN [ pageWidth |-> pageWidth, pageHeight |-> pageHeight, margin |-> margin,
         availableWidth |-> availableWidth, availableHeight |-> availableHeight,
         scale |-> scale, scaledWidth |-> scaledWidth, scaledHeight |-> scaledHeight,
         x |-> Plus(FromInt(margin), Halved(Minus(availableWidth, scaledWidth))),
         y |-> Plus(FromInt(margin), Halved(Minus(availableHeight, scaledHeight))) ]

\* convertImageToPdf(imageBuffer, options) is called; sharp reads the metadata
CallConvertImageToPdf(metadata, options) ==
    /\ pdf.stage = "none"
    /\ pdf' = [stage |-> "called", metadata |-> metadata, options |-> options]
    /\ UNCHANGED <<uploadVars, backupVars, modalVars>>
    /\ UNCHANGED convertVars
    /\ UNCHANGED storeVars
    /\ UNCHANGED apiVars

\* the rest of the function: the dimension test, the layout, page.drawImage
DrawImage ==
    /\ pdf.stage = "called"
    /\ pdf' = IF pdf.metadata.width = 0 \/ pdf.metadata.height = 0
              THEN [pdf EXCEPT !.stage = "threw"]
              ELSE [stage |-> "drawn", metadata |-> pdf.metadata, options |-> pdf.options,
                    layout |-> Layout(pdf.metadata, pdf.options)]
    /\ UNCHANGED <<uploadVars, backupVars, modalVars>>
    /\ UNCHANGED convertVars
    /\ UNCHANGED storeVars
    /\ UNCHANGED apiVars

NextPdf ==
    \/ \E w \in ImageWidths, h \in ImageHeights, s \in PageSizes, o \in Orientations :
          CallConvertImageToPdf([width |-> w, height |-> h], [pageSize |-> s, orientation |-> o])
    \/ DrawImage

SpecPdf == Init /\ [][NextPdf]_vars

----------------------------------------------------------------------------
(* The upload route: POST puts the file to the 'uploads' bucket and then   *)
(* inserts a row in the 'files' table.  Requests are handled concurrently, *)
(* one step per await.                                                     *)

Uploaders == 1..MaxUploaders

\* formData.get('file'): null when the field is absent, a string when the
\* field is a text field, a File otherwise
AbsentField == [kind |-> "null"]
TextField(value) == [kind |-> "text", value |-> value]
FileField(name) == [kind |-> "file", name |-> name, size |-> Len(name), type |-> "image/png"]
UploadFields ==
    { AbsentField, TextField(""), TextField("hello"),
      FileField(<<"photo", Dot, "png">>), FileField(<<"README">>) }

\* the fields that stand for a request body that cannot be parsed
Unparsable == [kind |-> "unparsable"]

\* !file
Falsy(file) == file.kind = "null" \/ (file.kind = "text" /\ file.value = "")

\* Date.now() and Math.random() as the environment picks them: two requests
\* may draw the same pair
Stamps == {1, 2}

\* `${timestamp}-${random}.${fileExtension}`
UploadKey(stamp, name) == [stamp |-> stamp, fileExtension |-> Last(split(name))]

\* what an awaited call to the storage or the database does: it resolves with
\* data, resolves with an error, or rejects
CallOutcomes == {"ok", "error", "rejects"}

UploadResponse(status, body) == [status |-> status, body |-> body]
NoFile400 == UploadResponse(400, [error |-> "No file provided"])
UploadFailed500 == UploadResponse(500, [error |-> "Failed to upload file"])
RecordFailed500 == UploadResponse(500, [error |-> "Failed to create file record"])
Internal500 == UploadResponse(500, [error |-> "Internal server error"])
Uploaded200(fileRecord, publicUrl) ==
    UploadResponse(200, [success |-> TRUE, file |-> fileRecord, url |-> publicUrl])

\* supabase.storage.from('uploads').getPublicUrl(fileName)
getPublicUrl(fileName) == [bucket |-> "uploads", path |-> fileName]

\* the row of .insert({...}); request is the request that inserted it
FileRow(file, publicUrl, request) ==
    [ name |-> file.name, size |-> file.size, type |-> file.type, url |-> publicUrl,
      status |-> "uploading", request |-> request ]

UploadDone(u, response) == [u EXCEPT !.pc = "done", !.response = response]

\* await request.formData() settles; then the code up to the storage call
UploadReceive(h, file, stamp) ==
    /\ uploads[h].pc = "idle"
    /\ \A g \in 1..(h - 1) : uploads[g].pc # "idle"
    /\ LET u == [pc |-> "received", file |-> file, fileName |-> Null, calls |-> <<>>, response |-> Null]
       IN uploads' = [uploads EXCEPT ![h] =
            CASE file.kind = "unparsable" -> UploadDone(u, Internal500)
              [] Falsy(file) -> UploadDone(u, NoFile400)
              [] file.kind = "text" -> UploadDone(u, Internal500)
              [] OTHER -> [u EXCEPT !.pc = "putting", !.fileName = UploadKey(stamp, file.name)]]
    /\ UNCHANGED <<objects, rows>>
    /\ UNCHANGED <<pdfVars, backupVars, modalVars>>
    /\ UNCHANGED convertVars
    /\ UNCHANGED storeVars
    /\ UNCHANGED apiVars

UploadCall(name, outcome) == [call |-> name, outcome |-> outcome]

\* Mutant: the error of the storage call is not looked at
AfterUpload_IgnoresError(u, outcome) ==
    LET called == [u EXCEPT !.calls = Append(u.calls, UploadCall("upload", outcome))]
    IN CASE outcome = "rejects" -> UploadDone(called, Internal500)
         [] OTHER -> [called EXCEPT !.pc = "inserting"]

\* the handler once await supabase.storage.from('uploads').upload(...) settled
AfterUpload(u, outcome) ==
    LET called == [u EXCEPT !.calls = Append(u.calls, UploadCall("upload", outcome))]
    IN CASE outcome = "rejects" -> UploadDone(called, Internal500)
         [] outcome = "error" -> UploadDone(called, UploadFailed500)
         [] OTHER -> [called EXCEPT !.pc = "inserting"]

\* the handler once await supabase.from('files').insert(...).select().single() settled
AfterInsert(u, outcome, fileRecord) ==
    LET called == [u EXCEPT !.calls = Append(u.calls, UploadCall("insert", outcome))]
    IN CASE outcome = "rejects" -> UploadDone(called, Internal500)
         [] outcome = "error" -> UploadDone(called, RecordFailed500)
         [] OTHER -> UploadDone(called, Uploaded200(fileRecord, getPublicUrl(u.fileName)))

\* the storage call settles.  With upsert: false a key that is taken is not
\* overwritten: the call cannot succeed.  A call that rejects may or may not
\* have stored the object.
UploadSettles(h, outcome, stored) ==
    /\ uploads[h].pc = "putting"
    /\ outcome = "ok" => stored /\ uploads[h].fileName \notin objects
    /\ outcome = "error" => ~stored
    /\ stored => uploads[h].fileName \notin objects
    /\ objects' = IF stored THEN objects \cup {uploads[h].fileName} ELSE objects
    /\ uploads' = [uploads EXCEPT ![h] = AfterUpload(uploads[h], outcome)]
    /\ UNCHANGED rows
    /\ UNCHANGED <<pdfVars, backupVars, modalVars>>
    /\ UNCHANGED convertVars
    /\ UNCHANGED storeVars
    /\ UNCHANGED apiVars

\* the database call settles.  A call that rejects may or may not have
\* inserted the row.  The handler makes no storage call after it.
InsertSettles(h, outcome, inserted) ==
    /\ uploads[h].pc = "inserting"
    /\ outcome = "ok" => inserted
    /\ outcome = "error" => ~inserted
    /\ LET fileRecord == FileRow(uploads[h].file, getPublicUrl(uploads[h].fileName), h)
       IN /\ rows' = IF inserted THEN Append(rows, fileRecord) ELSE rows
          /\ uploads' = [uploads EXCEPT ![h] = AfterInsert(uploads[h], outcome, fileRecord)]
    /\ UNCHANGED objects
    /\ UNCHANGED <<pdfVars, backupVars, modalVars>>
    /\ UNCHANGED convertVars
    /\ UNCHANGED storeVars
    /\ UNCHANGED apiVars

NextUpload ==
    \/ \E h \in Uploaders : \E file \in UploadFields \cup {Unparsable} : \E stamp \in Stamps :
          UploadReceive(h, file, stamp)
    \/ \E h \in Uploaders : \E outcome \in CallOutcomes : \E stored \in BOOLEAN :
          UploadSettles(h, outcome, stored)
    \/ \E h \in Uploaders : \E outcome \in CallOutcomes : \E inserted \in BOOLEAN :
          InsertSettles(h, outcome, inserted)

SpecUpload == Init /\ [][NextUpload]_vars

----------------------------------------------------------------------------
(* ConversionModal (conversion-modal.tsx).  React state is conversionJobs   *)
(* and isConverting; every setConversionJobs call of the component passes  *)
(* an updater or a fresh array, so updates apply in the order they are     *)
(* issued.  Handlers read conversionJobs from the render that created      *)
(* them: startConversion and convertFile keep that array for the whole     *)
(* call, whatever setConversionJobs does meanwhile.  Files are numbered;   *)
(* the blob converted from file f is f.  An optional field is <<>> when    *)
(* absent and <<v>> when set.  Time is in seconds: the cleanup interval    *)
(* fires once a second and a timeout fires in the second it is due.  The   *)
(* progress field and its interval, the toasts and the countdown state are *)
(* left out: no handler reads them.                                        *)

\* seconds the clock runs
MaxClock == 12
\* startConversion calls that find jobs to convert
MaxStarts == 1

\* the cleanup interval's period, the removal timeout, and the interval's
\* thresholds for completed and downloaded jobs (seconds)
CleanupPeriod == 1
RemovalDelay == 5
CompletedFor == 5
DownloadedFor == 10

ModalVarsElse == <<convertVars, storeVars, apiVars, pdfVars, uploadVars, backupVars>>

\* files.map(file => ({ file, targetFormat: getDefaultFormat(file), status: 'pending', ... }))
PendingJob(file) ==
    [ file |-> file, targetFormat |-> "default", status |-> "pending", result |-> <<>>,
      completedAt |-> <<>>, downloadedAt |-> <<>>, autoRemoveCountdown |-> <<>> ]
InitialJobs(fs) == [i \in 1..Len(fs) |-> PendingJob(fs[i])]

\* prev.map((job, i) => i === index ? { ...job, ...updates } : job)
updateJob(jobs, index, updates) ==
    [i \in 1..Len(jobs) |->
        IF i = index
        THEN [k \in DOMAIN jobs[i] |-> IF k \in DOMAIN updates THEN updates[k] ELSE jobs[i][k]]
        ELSE jobs[i]]

\* prev.filter((job, i) => i !== index)
RECURSIVE WithoutIndex(_, _)
WithoutIndex(jobs, index) ==
    IF jobs = <<>> THEN <<>>
    ELSE IF index = 1 THEN Tail(jobs)
    ELSE <<Head(jobs)>> \o WithoutIndex(Tail(jobs), index - 1)

\* the map of the cleanup interval: the countdown of a completed job
Counted(job, at) ==
    IF job.status = "completed" /\ job.completedAt # <<>>
    THEN LET elapsed == at - job.completedAt[1]
         IN [job EXCEPT !.autoRemoveCountdown = <<IF 5 - elapsed > 0 THEN 5 - elapsed ELSE 0>>]
    ELSE job

\* the filter of the cleanup interval
Swept(job, at) ==
    \/ job.downloadedAt # <<>> /\ at - job.downloadedAt[1] > DownloadedFor
    \/ job.status = "completed" /\ job.completedAt # <<>> /\ at - job.completedAt[1] > CompletedFor

RECURSIVE CleanedUp(_, _)
CleanedUp(jobs, at) ==
    IF jobs = <<>> THEN <<>>
    ELSE LET job == Counted(Head(jobs), at)
         IN (IF Swept(job, at) THEN <<>> ELSE <<job>>) \o CleanedUp(Tail(jobs), at)

\* The parent opens the modal with n files.
Open(n) ==
    /\ files = <<>>
    /\ files' = [i \in 1..n |-> i]
    /\ UNCHANGED <<conversionJobs, isConverting, loop, timers, clock, sweptAt, requests,
                   settled, closing>>
    /\ UNCHANGED ModalVarsElse

\* The Select of the file list (shown while there are no jobs): initializeJobs,
\* then handleFormatChange(index, value).  The user picks a format for the
\* first file.
SelectFormat(index) ==
    /\ files # <<>>
    /\ conversionJobs = <<>>
    /\ index \in 1..Len(files)
    /\ conversionJobs' = updateJob(InitialJobs(files), index, [targetFormat |-> "chosen"])
    /\ UNCHANGED <<files, isConverting, loop, timers, clock, sweptAt, requests, settled, closing>>
    /\ UNCHANGED ModalVarsElse

\* the part of convertFile(job, index) before its await, applied to the jobs
Converting(jobs, index) == updateJob(jobs, index, [status |-> "converting"])

\* The Start button: enabled unless converting or every job is completed.
\* The call runs to its first await: with no job in the array of its render
\* the loop has nothing to iterate over and the call ends at once.
StartConversion ==
    /\ files # <<>>
    /\ ~isConverting
    /\ conversionJobs = <<>> \/ loop.starts < MaxStarts
    /\ conversionJobs = <<>> \/ \E i \in 1..Len(conversionJobs) : conversionJobs[i].status # "completed"
    /\ IF conversionJobs = <<>>
       THEN /\ conversionJobs' = InitialJobs(files)
            /\ isConverting' = FALSE
            /\ loop' = [pc |-> "idle", jobs |-> <<>>, i |-> 0, starts |-> loop.starts,
                        startedEmpty |-> TRUE, posts |-> 0]
            /\ UNCHANGED requests
       ELSE /\ conversionJobs' = Converting(conversionJobs, 1)
            /\ isConverting' = TRUE
            /\ loop' = [pc |-> "fetching", jobs |-> conversionJobs, i |-> 1,
                        starts |-> loop.starts + 1, startedEmpty |-> FALSE, posts |-> 1]
            /\ requests' = Append(requests, conversionJobs[1].file)
    /\ UNCHANGED <<files, timers, clock, sweptAt, settled, closing>>
    /\ UNCHANGED ModalVarsElse

\* what convertFile does to the jobs once its request has settled
AfterFetch(jobs, index, file, outcome, at) ==
    IF outcome = "ok"
    THEN updateJob(updateJob(jobs, index, [status |-> "completed", result |-> <<file>>]),
                   index, [completedAt |-> <<at>>, autoRemoveCountdown |-> <<5>>])
    ELSE updateJob(jobs, index, [status |-> "error"])

\* The request of the job in progress settles: the rest of convertFile runs,
\* then the loop goes on to its next job or ends.
FetchSettles(outcome) ==
    /\ loop.pc = "fetching"
    /\ LET index == loop.i
           file == loop.jobs[index].file
           finished == AfterFetch(conversionJobs, index, file, outcome, clock)
       IN /\ settled' = [settled EXCEPT ![file] = [status |-> outcome, at |-> clock]]
          /\ timers' = IF outcome = "ok"
                       THEN timers \cup {[index |-> index, due |-> clock + RemovalDelay,
                                          last |-> Len(loop.jobs) = 1]}
                       ELSE timers
          /\ IF index < Len(loop.jobs)
             THEN /\ conversionJobs' = Converting(finished, index + 1)
                  /\ loop' = [loop EXCEPT !.i = index + 1, !.posts = @ + 1]
                  /\ requests' = Append(requests, loop.jobs[index + 1].file)
                  /\ UNCHANGED isConverting
             ELSE /\ conversionJobs' = finished
                  /\ loop' = [loop EXCEPT !.pc = "idle"]
                  /\ isConverting' = FALSE
                  /\ UNCHANGED requests
    /\ UNCHANGED <<files, clock, sweptAt, closing>>
    /\ UNCHANGED ModalVarsElse

\* A removal timeout fires.
RemovalTimeout(timer) ==
    /\ timer \in timers
    /\ clock >= timer.due
    /\ conversionJobs' = WithoutIndex(conversionJobs, timer.index)
    /\ timers' = timers \ {timer}
    /\ closing' = (closing \/ timer.last)
    /\ UNCHANGED <<files, isConverting, loop, clock, sweptAt, requests, settled>>
    /\ UNCHANGED ModalVarsElse

\* The cleanup interval fires.
Cleanup ==
    /\ sweptAt < clock
    /\ sweptAt' = clock
    /\ conversionJobs' = CleanedUp(conversionJobs, clock)
    /\ closing' = (closing \/ (conversionJobs' = <<>> /\ conversionJobs # <<>>))
    /\ UNCHANGED <<files, isConverting, loop, timers, requests, settled>>
    /\ UNCHANGED clock
    /\ UNCHANGED ModalVarsElse

\* The Download button of a job that has a result.  The user downloads one
\* file at a time: the next once the downloaded one has left the list.
DownloadFile(index) ==
    /\ index \in 1..Len(conversionJobs)
    /\ conversionJobs[index].result # <<>>
    /\ \A i \in 1..Len(conversionJobs) : conversionJobs[i].downloadedAt = <<>>
    /\ conversionJobs' = updateJob(conversionJobs, index, [downloadedAt |-> <<clock>>])
    /\ UNCHANGED <<files, isConverting, loop, timers, clock, sweptAt, requests, settled, closing>>
    /\ UNCHANGED ModalVarsElse

\* A second passes, once the interval and the timeouts due in this one ran.
\* The clock starts when the modal opens and stops when it closes.
Second ==
    /\ files # <<>>
    /\ ~closing
    /\ clock < MaxClock
    /\ sweptAt = clock
    /\ \A timer \in timers : timer.due > clock
    /\ clock' = clock + CleanupPeriod
    /\ UNCHANGED <<files, conversionJobs, isConverting, loop, timers, sweptAt, requests,
                   settled, closing>>
    /\ UNCHANGED ModalVarsElse

NextModal ==
    \/ \E n \in 1..MaxFiles : Open(n)
    \/ SelectFormat(1)
    \/ StartConversion
    \/ \E outcome \in {"ok", "error"} : FetchSettles(outcome)
    \/ \E timer \in timers : RemovalTimeout(timer)
    \/ Cleanup
    \/ \E index \in 1..MaxFiles : DownloadFile(index)
    \/ Second

SpecModal == Init /\ [][NextModal]_vars

----------------------------------------------------------------------------
(* Properties of POST /api/convert (checked under Spec)                    *)

Done == pc = "done"
Response == responses[1]
HasFile == ~req.file.isNull
HasTarget == req.targetFormat \notin {Null, ""}
Dispatched ==
    /\ HasFile /\ HasTarget
    /\ pc \in {"trackSuccess", "awaitSuccessFetch", "trackFailure", "awaitFailureFetch", "done"}
HasDot(name) == \E i \in DOMAIN name : name[i] = Dot
SourceExt == getFileExtension(req.file.name)
Invoked(fn) == \E i \in DOMAIN calls : calls[i].fn = fn
AdapterThrew == calls # <<>> /\ calls[1].threw

C2_AnalyticsFailureHarmless ==
    Done /\ posted # <<>> =>
        IF posted[1].event.success
        THEN /\ Response.status = 200
             /\ Response.contentType = mimeType
             /\ Response.body = result
             /\ Response.disposition = <<split(req.file.name)[1], req.targetFormat>>
             /\ Len(posted) = 1
        ELSE /\ Response.status = 500
             /\ Response.contentType = Json
             /\ Response.error = "Conversion failed"
             /\ Response.details = posted[1].event.errorMessage
             /\ Len(posted) = 1

C2_Witness ==
    /\ Done /\ Len(posted) = 1 /\ posted[1].outcome = "rejects"
    /\ Response.status = 200 /\ Response.body = result

\* The triples of every kind but the icon/vector one, as documented.
OtherSupportedTriple(ext, t) ==
    \/ /\ ext \in {W("jpeg"), W("jpg"), W("png"), W("webp"), W("avif"), W("gif"), W("tiff")}
       /\ t \in {"jpeg", "png", "webp", "avif", "pdf", "watermark-removed"}
    \/ /\ ext \in {W("mp4"), W("avi"), W("mov"), W("webm"), W("mkv"), W("flv")}
       /\ t \in {"mp4", "avi", "mov", "webm", "mp3", "wav", "aac"}
    \/ ext \in {W("docx"), W("txt")} /\ t \in {"html", "txt"}
    \/ ext = W("pdf") /\ t \in {"txt", "html"}
    \/ ext = W("js") /\ t = "html"
    \/ ext = W("ts") /\ t = "js"

\* The supported triples as C4 lists them: svg and ico sources share one target set.
ListedTriple(ext, t) ==
    \/ ext \in {W("svg"), W("ico")} /\ t \in {"png", "jpeg", "jpg", "webp", "ico", "svg"}
    \/ OtherSupportedTriple(ext, t)

\* The supported triples with the targets of svg and ico sources kept apart
\* (svg -> svg and ico -> ico are not conversions).
SupportedTriple(ext, t) ==
    \/ ext = W("svg") /\ t \in {"png", "jpeg", "jpg", "webp", "ico"}
    \/ ext = W("ico") /\ t \in {"png", "jpeg", "jpg", "webp", "svg"}
    \/ OtherSupportedTriple(ext, t)

KnownKind(ext) ==
    \/ isValidIconFormat(ext) \/ isValidImageFormat(ext) \/ isValidVideoFormat(ext)
    \/ isValidDocumentFormat(ext) \/ isValidCodeFormat(ext)

\* C3: a request whose (kind, source extension, target) triple is not supported
\* ends as a 400 JSON error about the rejected combination, with no converted
\* body.  (Which words of the message name the combination is left open: the
\* status and the body kind decide.)
C3_UnsupportedTripleIs400 ==
    Done /\ HasFile /\ HasTarget /\ HasDot(req.file.name) /\ KnownKind(SourceExt)
         /\ ~SupportedTriple(SourceExt, req.targetFormat) =>
        /\ Response.status = 400
        /\ Response.contentType = Json
        /\ Response.body = Body("json", <<>>)

DocumentedMime(t) ==
    CASE t = "png" -> Mime("image", "png")
      [] t \in {"jpeg", "jpg"} -> Mime("image", "jpeg")
      [] t = "webp" -> Mime("image", "webp")
      [] t = "avif" -> Mime("image", "avif")
      [] t = "ico" -> Mime("image", "x-icon")
      [] t = "svg" -> Mime("image", "svg+xml")
      [] t = "pdf" -> Mime("application", "pdf")
      [] t = "watermark-removed" -> Mime("image", "png")
      [] t \in {"mp4", "avi", "mov", "webm"} -> Mime("video", t)
      [] t \in {"mp3", "wav", "aac"} -> Mime("audio", t)
      [] t = "html" -> Mime("text", "html")
      [] t = "txt" -> Mime("text", "plain")
      [] t = "js" -> Mime("application", "javascript")
      [] OTHER -> Mime("application", "octet-stream")

\* C4 as stated: for every listed triple (svg or ico source with target in
\* {png, jpeg, jpg, webp, ico, svg}, ...), when the adapter does not throw, the
\* response is 200 with the Content-Type documented for the target.
C4_ListedTripleMime ==
    Done /\ HasFile /\ HasTarget /\ HasDot(req.file.name)
         /\ ListedTriple(SourceExt, req.targetFormat) /\ ~AdapterThrew =>
        /\ Response.status = 200
        /\ Response.contentType = DocumentedMime(req.targetFormat)

\* C4 amended: the same with svg sources limited to targets {png, jpeg, jpg,
\* webp, ico} and ico sources to {png, jpeg, jpg, webp, svg}.
C4_SupportedTripleMime ==
    Done /\ HasFile /\ HasTarget /\ HasDot(req.file.name)
         /\ SupportedTriple(SourceExt, req.targetFormat) /\ ~AdapterThrew =>
        /\ Response.status = 200
        /\ Response.contentType = DocumentedMime(req.targetFormat)

C4_Witness ==
    /\ Done /\ HasFile /\ HasTarget
    /\ req.file.name = <<"photo", Dot, "SVG">> /\ req.targetFormat = "ico"
    /\ ~AdapterThrew /\ Response.status = 200 /\ Response.contentType = Mime("image", "x-icon")

\* C5 as stated: whenever an adapter throws, ICO->SVG included, the response is
\* 500 with the adapter's error text in details, and an analytics event with
\* success=false and that message is attempted.
C5_AdapterThrowIs500 ==
    Done /\ AdapterThrew =>
        /\ Response.status = 500
        /\ Response.details = calls[1].error
        /\ Len(posted) = 1
        /\ posted[1].event.success = FALSE
        /\ posted[1].event.errorMessage = calls[1].error

\* C5 amended: whenever an adapter other than ICO->SVG throws, the response is
\* 500 with the adapter's error text in details and one analytics event with
\* success=false and that message is attempted; when the ICO->SVG adapter
\* throws, the response is 400 with the adapter's error text in details and no
\* analytics event is attempted.
C5_AdapterThrowIs500ExceptIcoSvg ==
    Done /\ AdapterThrew =>
        IF calls[1].fn = "convertIcoToSvg"
        THEN /\ Response.status = 400
             /\ Response.details = calls[1].error
             /\ posted = <<>>
        ELSE /\ Response.status = 500
             /\ Response.details = calls[1].error
             /\ Len(posted) = 1
             /\ posted[1].event.success = FALSE
             /\ posted[1].event.errorMessage = calls[1].error

C5_Witness ==
    /\ Done /\ AdapterThrew /\ calls[1].fn = "convertImageFormat"
    /\ Response.status = 500 /\ Len(posted) = 1

IcoToSvgUndecodable ==
    /\ Done /\ HasFile /\ HasTarget
    /\ SourceExt = W("ico") /\ req.targetFormat = "svg"
    /\ calls # <<>> /\ calls[1].engine = "undecodable"

PlaceholderResponse ==
    /\ Response.status = 200
    /\ Response.contentType = Mime("image", "svg+xml")
    /\ Response.body = PlaceholderSvg

\* C8 as stated: ico -> svg on an undecodable buffer of any length ends as 200
\* image/svg+xml with the placeholder SVG, never with an error status.
C8_UndecodableIcoIsPlaceholder ==
    IcoToSvgUndecodable => PlaceholderResponse

\* C8 amended: ico -> svg on an undecodable buffer of at least 6 bytes, with or
\* without a valid ICO header, ends as 200 image/svg+xml with the placeholder
\* SVG; a buffer shorter than 6 bytes ends as 400.
C8_UndecodableIcoOfSixBytesIsPlaceholder ==
    IcoToSvgUndecodable =>
        IF Len(req.file.buffer) >= 6
        THEN PlaceholderResponse
        ELSE Response.status = 400 /\ Response.contentType = Json

C8_Witness ==
    /\ IcoToSvgUndecodable /\ Len(req.file.buffer) >= 6
    /\ ~isValidIco(req.file.buffer) /\ Response.status = 200

VideoTargets == {"mp4", "avi", "mov", "webm"}
AudioTargets == {"mp3", "wav", "aac"}

\* C9: for a video source an audio target goes to the audio-extraction adapter,
\* a video target to the video-transcode adapter, and every other target is
\* rejected without invoking the video-transcode adapter.
C9_VideoRouting ==
    Dispatched /\ HasDot(req.file.name) /\ isValidVideoFormat(fileExtension) =>
        CASE req.targetFormat \in AudioTargets ->
                Len(calls) = 1 /\ calls[1].fn = "extractAudioFromVideo"
          [] req.targetFormat \in VideoTargets ->
                Len(calls) = 1 /\ calls[1].fn = "convertVideoFormat"
          [] OTHER ->
                /\ ~Invoked("convertVideoFormat")
                /\ Done /\ Response.status = 400

\* C10: a file name without a '.' is classified Unknown and the request is
\* rejected with 400 'Unsupported file type'.
C10_NoDotIsUnknown ==
    Done /\ HasFile /\ HasTarget /\ ~HasDot(req.file.name) =>
        /\ ~KnownKind(fileExtension)
        /\ Response.status = 400
        /\ Response.error = "Unsupported file type"

\* the file name with its extension (what follows the last dot) lower-cased
LowerExtension(name) ==
    [i \in DOMAIN name |->
        IF \A j \in i..Len(name) : name[j] # Dot THEN LowerOf(name[i]) ELSE name[i]]

LoweredRequest == [req EXCEPT !.file.name = LowerExtension(@)]

\* C11: classification is case-insensitive in the extension: the extension
\* the handler classifies, and the whole outcome of the dispatch (branch taken,
\* adapters invoked, body, type, rejection), is what the name with its extension
\* lower-cased gives, the document sub-dispatch on .docx/.txt/.pdf included.
C11_CaseInsensitive ==
    Dispatched =>
        /\ fileExtension = getFileExtension(LowerExtension(req.file.name))
        /\ \A eng \in EngineOutcomes : Handle(req, eng) = Handle(LoweredRequest, eng)
        /\ \E eng \in EngineOutcomes :
              LET d == Handle(LoweredRequest, eng)
              IN /\ calls = d.called
                 /\ result = d.result
                 /\ mimeType = d.mimeType
                 /\ caught = d.error

C11_Witness ==
    /\ Done /\ req.file.name = <<"report", Dot, "DOCX">> /\ req.targetFormat = "html"
    /\ LowerExtension(req.file.name) = <<"report", Dot, "docx">>
    /\ fileExtension = W("docx")
    /\ calls # <<>> /\ calls[1].fn = "convertDocxToHtml" /\ Response.status = 200

\* the adapters each dispatch branch can invoke
IconAdapters ==
    {"convertSvgToPng", "convertSvgToJpeg", "convertSvgToWebp", "convertSvgToIco",
     "convertIcoToSvg", "convertImageFormat"}
ImageAdapters == {"removeWatermark", "convertToIco", "convertImageToPdf", "convertImageFormat"}
VideoAdapters == {"extractAudioFromVideo", "convertVideoFormat"}
DocumentAdapters == {"convertDocxToHtml", "convertDocxToText"}
CodeAdapters == {"convertCodeFormat"}

\* the first branch that matches in the order icon/vector, image, video, document, code
FirstMatch(ext) ==
    CASE isValidIconFormat(ext) -> "icon"
      [] isValidImageFormat(ext) -> "image"
      [] isValidVideoFormat(ext) -> "video"
      [] isValidDocumentFormat(ext) -> "document"
      [] isValidCodeFormat(ext) -> "code"
      [] OTHER -> "none"

BranchAdapters(branch) ==
    CASE branch = "icon" -> IconAdapters
      [] branch = "image" -> ImageAdapters
      [] branch = "video" -> VideoAdapters
      [] branch = "document" -> DocumentAdapters
      [] branch = "code" -> CodeAdapters
      [] OTHER -> {}

\* C12: every request takes exactly one dispatch branch, the first that matches
\* in the order icon/vector, image, video, document, code: at most one adapter
\* is invoked and it is one of that branch's; an svg or ico source is handled by
\* the icon/vector branch and never reaches the watermark-removal, image-to-PDF
\* or image-to-ICO adapters of the generic image branch; a source that matches
\* no branch is rejected as an unsupported file type.
C12_FirstMatchingBranch ==
    Dispatched =>
        /\ Len(calls) <= 1
        /\ \A i \in DOMAIN calls : calls[i].fn \in BranchAdapters(FirstMatch(fileExtension))
        /\ FirstMatch(fileExtension) \in {"image", "video", "code"} => Len(calls) = 1
        /\ isValidIconFormat(fileExtension) =>
              /\ ~Invoked("removeWatermark")
              /\ ~Invoked("convertImageToPdf")
              /\ ~Invoked("convertToIco")
        /\ FirstMatch(fileExtension) = "none" =>
              /\ Done /\ Response.status = 400
              /\ Response.error = "Unsupported file type"

C12_Witness ==
    /\ Done /\ HasFile /\ req.file.name = <<"logo", Dot, "svg">>
    /\ req.targetFormat = "watermark-removed"
    /\ Len(calls) = 1 /\ calls[1].fn = "convertImageFormat" /\ ~Invoked("removeWatermark")
    /\ Response.status = 200

DocumentMessage ==
    "Document conversion not supported for ${fileExtension} files. Supported formats: .docx, .txt, .pdf"

\* C13: in the document branch a pdf source with a target other than txt or
\* html is rejected with 400, and a doc or rtf source is rejected with 400 and
\* the message that names .docx, .txt, .pdf; in both cases no adapter is invoked.
C13_DocumentRejections ==
    /\ Dispatched /\ fileExtension = W("pdf") /\ req.targetFormat \notin {"txt", "html"} =>
          /\ Done /\ Response.status = 400 /\ Response.contentType = Json
          /\ calls = <<>>
    /\ Dispatched /\ fileExtension \in {W("doc"), W("rtf")} =>
          /\ Done /\ Response.status = 400 /\ Response.contentType = Json
          /\ Response.error = DocumentMessage
          /\ Response.errorArgs = <<fileExtension>>
          /\ calls = <<>>

C13_Witness ==
    /\ Done /\ HasFile /\ req.file.name = <<"paper", Dot, "PDF">> /\ req.targetFormat = "png"
    /\ fileExtension = W("pdf") /\ Response.status = 400 /\ calls = <<>>

\* the paragraphs of a text, read left to right: a paragraph is open at the
\* start, every newline closes it and opens the next, the end closes the last
RECURSIVE ParagraphsFrom(_)
ParagraphsFrom(text) ==
    IF text = <<>> THEN CloseP
    ELSE IF Head(text) = Newline
         THEN CloseP \o OpenP \o ParagraphsFrom(Tail(text))
         ELSE <<Head(text)>> \o ParagraphsFrom(Tail(text))

\* a txt source whose name has a dot (C10 is about the names that have none)
TxtSource == Dispatched /\ HasDot(req.file.name) /\ fileExtension = W("txt")

\* C14: for a txt source with target html the output is '<html><body>', then
\* '<p>line</p>' for each newline-separated line of the input text (the buffer
\* read as UTF-8) in order and without escaping, then '</body></html>', as
\* text/html; with target txt the output bytes are the input bytes, as text/plain.
C14_TxtSource ==
    /\ TxtSource /\ req.targetFormat = "html" =>
          /\ result = Body("bytes", Utf8Encode(HtmlOpen \o OpenP \o ParagraphsFrom(Utf8Decode(req.file.buffer)) \o HtmlClose))
          /\ mimeType = Mime("text", "html")
          /\ Done => Response.status = 200 /\ Response.body = result /\ Response.contentType = mimeType
    /\ TxtSource /\ req.targetFormat = "txt" =>
          /\ result = Body("bytes", req.file.buffer)
          /\ mimeType = Mime("text", "plain")
          /\ Done => Response.status = 200 /\ Response.body = result /\ Response.contentType = mimeType

\* a\n<\n(FF)\n gives <p>a</p><p><</p><p>(U+FFFD)</p><p></p>
C14_Witness ==
    /\ Done /\ TxtSource /\ req.targetFormat = "html"
    /\ req.file.buffer = <<97, 10, 60, 10, 255, 10>>
    /\ Response.status = 200
    /\ Response.body.data =
          HtmlOpen \o <<60, 112, 62, 97, 60, 47, 112, 62>> \o <<60, 112, 62, 60, 60, 47, 112, 62>>
                   \o <<60, 112, 62, 239, 191, 189, 60, 47, 112, 62>> \o <<60, 112, 62, 60, 47, 112, 62>>
                   \o HtmlClose

\* a docx source whose name has a dot
DocxSource == Dispatched /\ HasDot(req.file.name) /\ fileExtension = W("docx")

PlainDownload ==
    /\ mimeType = Mime("text", "plain")
    /\ Done => /\ Response.status = 200
               /\ Response.contentType = Mime("text", "plain")
               /\ Response.body = result
               /\ Response.disposition[2] = req.targetFormat

\* C24: a docx or txt source never fails because of its target format: for a
\* docx source every target other than html yields the extracted raw text, for
\* a txt source every target other than html yields the input bytes unchanged,
\* in both cases as HTTP 200 with Content-Type text/plain and a download
\* filename ending in the requested target.
C24_DocxTxtAnyTarget ==
    /\ (DocxSource \/ TxtSource) /\ Done /\ ~AdapterThrew => Response.status = 200
    /\ DocxSource /\ req.targetFormat # "html" /\ ~AdapterThrew =>
          /\ result = Body("docx-raw-text", req.file.buffer)
          /\ PlainDownload
    /\ TxtSource /\ req.targetFormat # "html" =>
          /\ result = Body("bytes", req.file.buffer)
          /\ PlainDownload

\* report.docx with the modal's default document target pdf: plain text named report.pdf
C24_Witness ==
    /\ Done /\ DocxSource /\ req.targetFormat = "pdf"
    /\ Response.status = 200
    /\ Response.contentType = Mime("text", "plain")
    /\ Response.body.tag = "docx-raw-text"
    /\ Response.disposition = <<<<"report">>, "pdf">>

JustImported == held.op = "import" /\ held.mutations = 0 /\ nextId = held.calls
TrackedOnceSince == held.op = "import" /\ held.mutations = 0 /\ nextId = held.calls + 1
Kept(d) == IF Len(d) + 1 < MaxRecords THEN Len(d) + 1 ELSE MaxRecords
C26_ImportUnboundedExportCopies ==
    /\ [](JustImported => analyticsData = held.items)
    /\ [](TrackedOnceSince =>
            LET d == held.items
                tracked == history[Len(history)]
            IN /\ Len(analyticsData) = Kept(d)
               /\ analyticsData = SliceLast(Append(d, tracked), Kept(d))
               /\ analyticsData[Kept(d)] = tracked
               /\ tracked.id = nextId - 1)
    /\ [](held.op = "export" /\ held.mutations = 0 /\ nextId = held.calls =>
            held.items = analyticsData)
    /\ [][held.op = "export" /\ held'.op = "export" /\ held'.mutations = held.mutations + 1 =>
            /\ analyticsData' = analyticsData
            /\ held'.items # held.items]_vars

C26_Witness ==
    /\ TrackedOnceSince
    /\ Len(held.items) = MaxRecords + 2
    /\ Len(analyticsData) = MaxRecords
    /\ analyticsData[1].id = held.items[4].id

\* C29: a job leaves the job list only if that same job completed at least 5
\* seconds ago or was downloaded more than 10 seconds ago, and when a job's
\* request settles, the status and result go to that job (if it is still
\* listed) and to no other job.
Listed(jobs) == {jobs[i].file : i \in 1..Len(jobs)}
JobOf(jobs, file) == jobs[CHOOSE i \in 1..Len(jobs) : jobs[i].file = file]
MayLeave(job) ==
    \/ settled[job.file].status = "ok" /\ clock - settled[job.file].at >= CompletedFor
    \/ job.downloadedAt # <<>> /\ clock - job.downloadedAt[1] > DownloadedFor
SettledNow(file) == settled'[file] # settled[file]
C29_RemovalAndUpdateHitTheSameJob ==
    [][/\ \A file \in Listed(conversionJobs) \ Listed(conversionJobs') :
              MayLeave(JobOf(conversionJobs, file))
       /\ \A file \in 1..MaxFiles : SettledNow(file) =>
              \A other \in Listed(conversionJobs') :
                  LET after == JobOf(conversionJobs', other)
                  IN IF other = file
                     THEN IF settled'[file].status = "ok"
                          THEN after.status = "completed" /\ after.result = <<file>>
                          ELSE after.status = "error"
                     ELSE /\ after.result = JobOf(conversionJobs, other).result
                          /\ after.completedAt = JobOf(conversionJobs, other).completedAt
                          /\ after.status \in {JobOf(conversionJobs, other).status, "converting"}]_vars

\* C30: a startConversion call that found the job list empty has, by the time
\* isConverting is false again, issued one POST /api/convert per file.
C30_StartOnEmptyConvertsEveryFile ==
    loop.startedEmpty /\ ~isConverting => loop.posts = Len(files)

RecordingInFlight == posted # <<>> /\ posted[Len(posted)].outcome = Pending

\* C15: analytics recording is fire-and-forget: the response is returned
\* without waiting for the recording to complete, so whenever a recording is
\* still in flight the response of its request has already been returned.
C15_FireAndForget ==
    RecordingInFlight => Len(responses) = 1

----------------------------------------------------------------------------
(* Properties of the analytics store (checked under SpecStore)             *)

Min(a, b) == IF a < b THEN a ELSE b

\* C6: after n trackConversion calls from an empty store, the store holds
\* exactly min(n, 1000) events, the most recently tracked ones in insertion
\* order; the length never exceeds 1000 after a call returns.
C6_BoundedFifo ==
    /\ Len(history) = nextId
    /\ Len(analyticsData) = Min(nextId, 1000)
    /\ \A i \in 1..Len(analyticsData) :
          analyticsData[i] = history[nextId - Len(analyticsData) + i]

----------------------------------------------------------------------------
(* Properties of POST /api/analytics (checked under SpecPost)              *)

Accepted == {h \in DOMAIN handlers : handlers[h].pc = "done" /\ handlers[h].response.status = 200}
InitialEvents == Len(history) - Cardinality(Accepted)

\* C16: with handlers interleaving only at their await and trackConversion
\* running as one step, for every interleaving each accepted analytics POST
\* adds exactly one event (none lost, none duplicated), the events are in the
\* order their trackConversion steps ran, and the store never holds more than
\* 1000 events between steps.
C16_ConcurrentPosts ==
    /\ Len(history) = nextId
    /\ InitialEvents \in {0, MaxRecords - (MaxHandlers - 1)}
    /\ \A h \in Accepted :
          LET id == handlers[h].response.analyticsId
          IN /\ id >= InitialEvents
             /\ id + 1 \in DOMAIN history
             /\ history[id + 1] = ConversionData(AnalyticsOf(handlers[h].request.body), id, history[id + 1].timestamp)
             /\ \A g \in Accepted : g # h => handlers[g].response.analyticsId # id
    /\ Len(analyticsData) = Min(Len(history), 1000)
    /\ analyticsData = SubSeq(history, Len(history) - Len(analyticsData) + 1, Len(history))
    /\ Len(analyticsData) <= 1000

C16_Witness ==
    /\ Accepted = Handlers
    /\ nextId > 1000
    /\ Len(analyticsData) = 1000
    /\ \E h \in Handlers : handlers[h].response.analyticsId = nextId - 1 /\ analyticsData[1000].id = nextId - 1

PostHandled(h) == handlers[h].pc = "awaitJson" /\ handlers'[h].pc = "done"

AnyAbsent(body) == \E f \in RequiredFields : ~Has(body, f)

AbsentOrEmpty(body) ==
    \/ AnyAbsent(body)
    \/ body.fileName = <<>> \/ body.originalFormat = <<>> \/ body.targetFormat = ""

\* the step answers 400 and leaves the store as it was
RejectedBy(h) ==
    /\ handlers'[h].response.status = 400
    /\ analyticsData' = analyticsData
    /\ history' = history

\* the step appends one event carrying the body's fields and answers
\* {success: true, analyticsId, message} with that event's id
AppendedBy(h) ==
    LET body == handlers[h].request.body
        event == analyticsData'[Len(analyticsData')]
    IN /\ analyticsData' # <<>>
       /\ history' = Append(history, event)
       /\ Len(analyticsData') = Min(Len(analyticsData) + 1, 1000)
       /\ SubSeq(analyticsData', 1, Len(analyticsData') - 1) =
             SubSeq(analyticsData, Len(analyticsData) - Len(analyticsData') + 2, Len(analyticsData))
       /\ \A f \in RequiredFields : event[f] = body[f]
       /\ handlers'[h].response = Tracked200(event.id)

\* C17 as stated: when any of the six required fields is missing the response
\* is 400 and the store is unchanged; when all six are present exactly one event
\* carrying them is appended and the response carries that event's id.
C17_MissingFieldIs400 ==
    [][\A h \in DOMAIN handlers :
          PostHandled(h) /\ handlers[h].request.json = "object" =>
              IF AnyAbsent(handlers[h].request.body) THEN RejectedBy(h) ELSE AppendedBy(h)]_vars

\* C17 amended: when any of fileName, originalFormat, targetFormat is missing or
\* an empty string, or any of fileSize, processingTime, success is missing, the
\* response is 400 and the store is unchanged; otherwise (fileSize = 0,
\* processingTime = 0 and success = false included) exactly one event carrying
\* the six fields is appended and the response is {success: true, analyticsId,
\* message} with analyticsId the id of the appended event.
C17_MissingOrEmptyFieldIs400 ==
    [][\A h \in DOMAIN handlers :
          PostHandled(h) /\ handlers[h].request.json = "object" =>
              IF AbsentOrEmpty(handlers[h].request.body) THEN RejectedBy(h) ELSE AppendedBy(h)]_vars

C17_Witness ==
    \E h, g \in DOMAIN handlers :
        /\ handlers[h].pc = "done" /\ handlers[h].request.body = ZeroBody
        /\ handlers[h].response.status = 200
        /\ analyticsData[Len(analyticsData)].id = handlers[h].response.analyticsId
        /\ analyticsData[Len(analyticsData)].fileSize = 0
        /\ handlers[g].pc = "done" /\ handlers[g].request.body = [FullBody EXCEPT !.fileName = <<>>]
        /\ handlers[g].response.status = 400

----------------------------------------------------------------------------
(* Properties of GET /api/analytics and of the summary (checked under      *)
(* SpecGet)                                                                *)

\* the step is a GET request being answered
Answered == query'.action # "none"

ValidActions == {"summary", "formats", "insights", "export"}

\* C18: GET /analytics answers 400 exactly when the action parameter is absent
\* or not one of summary, formats, insights, export, and whatever the action
\* the request leaves the analytics store unchanged (same events, same order).
C18_GetStatusAndFrame ==
    [][Answered =>
          /\ query'.status \in {200, 400}
          /\ query'.status = 400 <=> query'.action \notin ValidActions
          /\ analyticsData' = analyticsData
          /\ history' = history /\ nextId' = nextId]_vars

C18_Witness ==
    /\ query.action = Null /\ query.status = 400
    /\ Len(analyticsData) = 2

\* the stored events within the window of a range that ends at the call:
\* 24 hours for day, 7 days for week, 30 days for month, every event for all
InWindow(item, timeRange, at) ==
    CASE timeRange = "day" -> item.timestamp >= at - 24
      [] timeRange = "week" -> item.timestamp >= at - 7 * 24
      [] timeRange = "month" -> item.timestamp >= at - 30 * 24
      [] timeRange = "all" -> TRUE

Windowed(timeRange, at) == {i \in DOMAIN analyticsData : InWindow(analyticsData[i], timeRange, at)}

RECURSIVE SumOver(_, _)
SumOver(indices, field) ==
    IF indices = {} THEN 0
    ELSE LET i == CHOOSE k \in indices : TRUE
         IN analyticsData[i][field] + SumOver(indices \ {i}, field)

SummaryAnswered == Answered /\ query'.action = "summary" /\ query'.timeRange \in {"day", "week", "month", "all"}

\* C19: getAnalyticsSummary(range) computes its figures over exactly the stored
\* events whose timestamp is within the window ending at call time (24 hours
\* for day, 7 days for week, 30 days for month, every event for all); an event
\* timestamped 25 hours before the call is not counted by day; and in every
\* case successfulConversions + failedConversions = totalConversions.
C19_SummaryWindow ==
    [][SummaryAnswered =>
          LET summary == query'.payload
              window == Windowed(query'.timeRange, now)
          IN /\ summary.totalConversions = Cardinality(window)
             /\ summary.successfulConversions = Cardinality({i \in window : analyticsData[i].success})
             /\ summary.failedConversions = Cardinality({i \in window : ~analyticsData[i].success})
             /\ summary.successfulConversions + summary.failedConversions = summary.totalConversions
             /\ summary.totalStorageUsed = SumOver(window, "fileSize")
             /\ summary.averageProcessingTime =
                    IF window = {} THEN Ratio(0, 1) ELSE Ratio(SumOver(window, "processingTime"), Cardinality(window))
             /\ SumSeq([i \in DOMAIN summary.dailyStats |-> summary.dailyStats[i].conversions]) = Cardinality(window)
             /\ SumSeq([i \in DOMAIN summary.mostConvertedFormats |-> summary.mostConvertedFormats[i].count])
                    = Cardinality(window)
             /\ query'.timeRange = "day" =>
                    summary.totalConversions <= Cardinality({i \in DOMAIN analyticsData : analyticsData[i].timestamp > now - 25})]_vars

\* one event 25 hours old and one of this hour: the day summary counts one
C19_Witness ==
    /\ query.action = "summary" /\ query.timeRange = "day"
    /\ Len(analyticsData) = 2
    /\ analyticsData[1].timestamp = now - 25 /\ analyticsData[2].timestamp = now
    /\ query.payload.totalConversions = 1

\* C20: the daily rollup of getAnalyticsSummary covers the last 30 days: for
\* every store content and time range it has no entry for a calendar date more
\* than 30 days before the call, at most one entry per date in ascending date
\* order, and each entry's conversions is the number of filtered events on that date.
C20_DailyRollupLast30Days ==
    [][SummaryAnswered =>
          LET dailyStats == query'.payload.dailyStats
              window == Windowed(query'.timeRange, now)
              today == now \div 24
          IN /\ \A i \in DOMAIN dailyStats : dailyStats[i].date >= today - 30
             /\ \A i, j \in DOMAIN dailyStats : i < j => dailyStats[i].date < dailyStats[j].date
             /\ \A i \in DOMAIN dailyStats :
                   dailyStats[i].conversions =
                       Cardinality({k \in window : analyticsData[k].timestamp \div 24 = dailyStats[i].date})]_vars

----------------------------------------------------------------------------
(* Properties of getPerformanceInsights (checked under SpecInsights)       *)

AllEvents == DOMAIN analyticsData
Pairs == {<<analyticsData[i].originalFormat, analyticsData[i].targetFormat>> : i \in AllEvents}
EventsOf(pair) ==
    {i \in AllEvents : analyticsData[i].originalFormat = pair[1] /\ analyticsData[i].targetFormat = pair[2]}

\* the success rate of a set of events is below pct percent (the rate of no
\* events is 0)
RateBelow(events, pct) ==
    IF events = {} THEN 0 < pct
    ELSE 100 * Cardinality({i \in events : analyticsData[i].success}) < pct * Cardinality(events)

\* the mean processing time of a set of events exceeds ms
MeanAbove(events, ms) ==
    events # {} /\ SumOver(events, "processingTime") > ms * Cardinality(events)

\* how many entries of a list are of a kind (and, for All, about any pair)
EntriesOf(list, kind) == Cardinality({i \in DOMAIN list : list[i].kind = kind})
PairEntriesOf(list, kind, pair) ==
    Cardinality({i \in DOMAIN list : list[i].kind = kind /\ list[i].format = pair})

OneIf(condition) == IF condition THEN 1 ELSE 0

GiB == 1024 * 1024 * 1024

\* C21: getPerformanceInsights, over all stored events, has a success-rate
\* recommendation exactly when the overall success rate is below 95%, a
\* processing-time recommendation exactly when the overall mean time exceeds
\* 5000 ms, for each pair a low-success bottleneck exactly when the pair's rate
\* is below 90% and a slow bottleneck exactly when its mean time exceeds
\* 10000 ms, and an optimization exactly when the total bytes exceed 1 GiB;
\* and it has no other entry.
C21_InsightThresholds ==
    query.action = "insights" =>
        LET insights == query.payload
        IN /\ EntriesOf(insights.recommendations, "success rate") = OneIf(RateBelow(AllEvents, 95))
           /\ EntriesOf(insights.recommendations, "processing time") = OneIf(MeanAbove(AllEvents, 5000))
           /\ Len(insights.recommendations) =
                  OneIf(RateBelow(AllEvents, 95)) + OneIf(MeanAbove(AllEvents, 5000))
           /\ \A pair \in Pairs :
                 /\ PairEntriesOf(insights.bottlenecks, "low success rate", pair)
                        = OneIf(RateBelow(EventsOf(pair), 90))
                 /\ PairEntriesOf(insights.bottlenecks, "slow", pair)
                        = OneIf(MeanAbove(EventsOf(pair), 10000))
           /\ \A i \in DOMAIN insights.bottlenecks :
                 /\ insights.bottlenecks[i].format \in Pairs
                 /\ insights.bottlenecks[i].kind \in {"low success rate", "slow"}
           /\ Len(insights.optimizations) = OneIf(SumOver(AllEvents, "fileSize") > GiB)

\* 9 of 10 png -> jpeg conversions succeeded (90%: no bottleneck) and the one
\* js -> ts conversion failed: 9 of 11 overall, one recommendation, one bottleneck
C21_Witness ==
    /\ query.action = "insights"
    /\ Len(analyticsData) = 11
    /\ Cardinality({i \in AllEvents : analyticsData[i].success}) = 9
    /\ Cardinality(EventsOf(<<W("png"), "jpeg">>)) = 10
    /\ Len(query.payload.recommendations) = 1
    /\ Len(query.payload.bottlenecks) = 1
    /\ query.payload.bottlenecks[1].format = <<W("js"), "ts">>

----------------------------------------------------------------------------
(* The empty store (checked under SpecGet)                                 *)

\* C27: with an empty store getAnalyticsSummary returns successRate 0 and
\* averageProcessingTime 0, and getPerformanceInsights returns exactly one
\* recommendation, the success-rate one reporting 0.0%, no bottlenecks and no
\* optimizations.
C27_EmptyStore ==
    analyticsData = <<>> =>
        /\ query.action = "summary" =>
              /\ query.payload.totalConversions = 0
              /\ query.payload.successRate = Ratio(0, 1)
              /\ query.payload.averageProcessingTime = Ratio(0, 1)
        /\ query.action = "insights" =>
              /\ query.payload.recommendations = <<[kind |-> "success rate", value |-> 0]>>
              /\ query.payload.bottlenecks = <<>>
              /\ query.payload.optimizations = <<>>

C27_Witness ==
    /\ analyticsData = <<>> /\ nextId = 0
    /\ query.action = "insights"
    /\ Len(query.payload.recommendations) = 1

----------------------------------------------------------------------------
(* Properties of convertImageToPdf (checked under SpecPdf)                 *)

Drawn == pdf.stage = "drawn"

\* x = y by value
Same(x, y) == Leq(x, y) /\ Leq(y, x)

\* C22: for every image of positive width and height, every page size and
\* orientation, with the 50pt margin: the scale factor never exceeds 1 (and is
\* 1 exactly when the image fits the printable area), the drawn width and
\* height never exceed the printable area (the page minus twice the margin),
\* the aspect ratio is preserved (drawn width * height = drawn height * width),
\* and the image is centred inside the margins (it starts at or after the
\* margin and ends at or before the page size minus the margin, both ways).
C22_ImageFitsPrintableArea ==
    Drawn =>
        LET layout == pdf.layout
            width == pdf.metadata.width
            height == pdf.metadata.height
            margin == FromInt(layout.margin)
            fits == /\ Leq(FromInt(width), layout.availableWidth)
                    /\ Leq(FromInt(height), layout.availableHeight)
        IN /\ Leq(layout.scale, FromInt(1))
           /\ fits <=> Same(layout.scale, FromInt(1))
           /\ Leq(layout.scaledWidth, layout.availableWidth)
           /\ Leq(layout.scaledHeight, layout.availableHeight)
           /\ Same(Product(layout.scaledWidth, height), Product(layout.scaledHeight, width))
           /\ Leq(margin, layout.x)
           /\ Leq(margin, layout.y)
           /\ Leq(Sum(layout.x, layout.scaledWidth), Sum(layout.pageWidth, Negate(margin)))
           /\ Leq(Sum(layout.y, layout.scaledHeight), Sum(layout.pageHeight, Negate(margin)))

----------------------------------------------------------------------------
(* Properties of the upload route (checked under SpecUpload)               *)

Arrived(h) == uploads[h].pc # "idle"
Finished(h) == uploads[h].pc = "done"
Made(h, name, outcome) == \E i \in DOMAIN uploads[h].calls : uploads[h].calls[i] = UploadCall(name, outcome)
MadeCall(h, name) == \E outcome \in CallOutcomes : Made(h, name, outcome)
RowsOf(h) == {i \in DOMAIN rows : rows[i].request = h}

\* the request carries no file: the file field is absent or is a text field
WithoutFile(h) == uploads[h].file.kind \in {"null", "text"}

\* C23: an upload request without a file gets 400 with no storage or database
\* call; otherwise the object is put to storage first and the row is inserted
\* only after the put succeeded; {success: true, file, url} is returned only
\* when both the put and the insert succeeded; and when the put fails the
\* response is 500 and no row is inserted.
C23_UploadPutThenInsert ==
    \A h \in Uploaders :
        Arrived(h) =>
            /\ Finished(h) /\ WithoutFile(h) =>
                  /\ uploads[h].response.status = 400
                  /\ uploads[h].calls = <<>>
            /\ MadeCall(h, "insert") \/ RowsOf(h) # {} =>
                  /\ uploads[h].calls[1] = UploadCall("upload", "ok")
                  /\ uploads[h].fileName \in objects
            /\ Finished(h) /\ uploads[h].response.status = 200 =>
                  /\ uploads[h].calls = <<UploadCall("upload", "ok"), UploadCall("insert", "ok")>>
                  /\ uploads[h].response.body.success
                  /\ \E i \in RowsOf(h) : uploads[h].response.body.file = rows[i]
                  /\ uploads[h].response.body.url = getPublicUrl(uploads[h].fileName)
            /\ Made(h, "upload", "error") \/ Made(h, "upload", "rejects") =>
                  /\ Finished(h)
                  /\ uploads[h].response.status = 500
                  /\ ~MadeCall(h, "insert")
                  /\ RowsOf(h) = {}

\* the object a row's url points at is in the bucket
Stored(row) == \E fileName \in objects : row.url = getPublicUrl(fileName)

\* C28: the upload route performs no rollback: when the insert fails after a
\* successful put the response is 500 'Failed to create file record' and the
\* object stays in the bucket; after any sequence of upload requests every row
\* refers to a stored object (while a stored object may have no row).
C28_NoRollback ==
    /\ \A i \in DOMAIN rows : Stored(rows[i])
    /\ \A h \in Uploaders :
          /\ Arrived(h) /\ Made(h, "insert", "error") =>
                /\ Finished(h)
                /\ uploads[h].response = RecordFailed500
          /\ Arrived(h) /\ MadeCall(h, "insert") =>
                /\ Made(h, "upload", "ok")
                /\ uploads[h].fileName \in objects
                /\ ~Made(h, "insert", "ok") => uploads[h].response.status = 500

\* a put succeeded and its insert failed: the object has no row
C28_Witness ==
    /\ Finished(1)
    /\ uploads[1].calls = <<UploadCall("upload", "ok"), UploadCall("insert", "error")>>
    /\ uploads[1].fileName \in objects
    /\ rows = <<>>
    /\ uploads[2].pc = "idle"

C6_Witness ==
    /\ nextId = 1001
    /\ Len(analyticsData) = 1000
    /\ analyticsData[1] = history[2]
    /\ analyticsData[1000] = history[1001]

====
